---- MODULE Spec2Model ----
(***************************************************************************)
(* Voice pipeline client (prbodas/pillow_endpoint, scripts/).              *)
(*                                                                         *)
(* The mechanisms modelled:                                                *)
(*   - the auto-stop capture loop record_from_mic / record_vad /           *)
(*     record_once (scripts/mic_convo.py, mic_llm_tts.py,                  *)
(*     prod_mic_convo.py, mic_transcribe.py: the same loop in each);       *)
(*   - the multipart/mixed demultiplexers: the whole-buffer parser         *)
(*     (mic_convo.parse_multipart, prod_mic_convo.parse_multipart), the    *)
(*     length-framed parser (examples/call_transcribe.parse_multipart)     *)
(*     and the streaming parser feeding the player                         *)
(*     (play_waifu.parse_multipart_stream), with their entry points;       *)
(*   - the playback entry points and the WAV container;                    *)
(*   - the manual-stop capture loop (mic_convo._record_until_event,        *)
(*     mic_llm_tts.record_until_enter) and the clients' main loops.        *)
(*                                                                         *)
(* Time is an integer clock counted in sample periods (1/samplerate s),    *)
(* so that int((time.time() - ts) * samplerate) is  now - ts.  The body    *)
(* of one loop iteration runs in far less than one sample period, so all   *)
(* time.time() reads of one iteration return the same value; time passes   *)
(* while the loop waits in q.get().                                        *)
(***************************************************************************)
EXTENDS Integers, Sequences, FiniteSets, TLC

VARIABLES
    \* ---- capture loop (record_from_mic) ----
    now,              \* time.time(), in sample periods
    waitStart,        \* the time at which the pending q.get(timeout) began
    q,                \* queue.Queue(): frames put by cb, not yet dequeued
    produced,         \* number of frames the device callback has delivered
    lastCb,           \* time of the last device callback
    started,
    speech_start_ts,
    last_voice_ts,
    collected,
    total_samples,
    vpc,              \* "loop" while in the while-loop, "done" after return;
                      \* manual-stop loop: "test" at the while condition,
                      \* "get" in q.get
    exitPath,         \* which break left the loop: "stall", "silence", "cap";
                      \* "stop" when the manual-stop loop saw stop_evt
    ret,              \* the value record_from_mic returned
    loudest,          \* history: highest level of any frame delivered so far
    dipped,           \* history: a frame below stop_threshold was dequeued
                      \*          after the recording started
    \* ---- multipart demultiplexers ----
    mode,             \* "buffer": mic_convo / prod_mic_convo parse_multipart
                      \* "framed": call_transcribe parse_multipart
                      \* "stream": play_waifu stream_multipart_to_player
    ffplay, afplay,   \* shutil.which("ffplay"), shutil.which("afplay") found
    status,           \* resp.status
    respCtype,        \* resp.getheader('Content-Type') or ''
    xBoundary,        \* resp.getheader('X-Boundary') or ''
    parts,            \* input: the parts the server put in the envelope
    withLength,       \* input: the server writes Content-Length headers
    fault,            \* input: how the first part of the envelope is malformed
    wire,             \* the response body on the transport
    pos,              \* bytes of the body consumed from the transport
    boundary,         \* the boundary the entry point discovered
    dpc,              \* position in the parser
    headers,          \* the headers dict of the part being parsed
    remaining,        \* parse_multipart_stream: bytes of the body still due
    segs, segIdx,     \* whole-buffer parser: raw.split(sep) and the loop index
    partNo,           \* ordinal of the part being parsed
    calls,            \* the sink invocations so far, in order
    stdinOpen,        \* the player process's stdin pipe is open
    player,           \* the player process started with Popen: "none",
                      \* "running", "exited" or "killed"
    outcome,          \* "none", "returned" or the exception raised
    \* ---- playback entry points ----
    tools,            \* which of mpg123, aplay, ffmpeg shutil.which finds
    pi_mode,          \* play_audio(..., pi_mode, ...)
    play,             \* save_and_play(..., play)
    audio_bytes,      \* the audio handed to the entry point
    saved,            \* the contents of the temporary files written and kept
    printed,          \* the notices printed, in order
    ran,              \* the player commands run, in order
    \* ---- WAV container ----
    samples,          \* the int16 samples of the utterance
    samplerate,
    wav,              \* the bytes wave.open(buf, 'wb') produced
    decoded,          \* what reading the container back gives
    wpc,              \* "idle", "encode", "decode" or "done"
    \* ---- capture parameters ----
    min_speech_ms,        \* record_from_mic(min_speech_ms=...), in sample periods
    trailing_silence_ms,  \* record_from_mic(trailing_silence_ms=...), likewise
    \* ---- manual-stop capture (_record_until_event, record_until_enter) ----
    stop_evt,         \* threading.Event(): set by wait_enter
    stop_ts,          \* history: the time at which stop_evt was set
    stop_len,         \* history: len(collected) when stop_evt was set
    \* ---- client main loops ----
    client,           \* which script's main() runs
    arg_mode,         \* args.mode: "manual" or "auto"
    mpc,              \* "prompt", "capture" or "exit"; "none" outside main()
    turns,            \* captures started so far
    posted            \* the audio bodies posted to the server in this turn
                      \* of the loop

vadVars == <<now, waitStart, q, produced, lastCb, started, speech_start_ts,
             last_voice_ts, collected, total_samples, vpc, exitPath, ret,
             loudest, dipped>>

demuxVars == <<mode, ffplay, afplay, status, respCtype, xBoundary, parts,
               withLength, fault, wire, pos, boundary, dpc, headers, remaining,
               segs, segIdx, partNo, calls, stdinOpen, player, outcome>>

sinkVars == <<tools, pi_mode, play, audio_bytes, saved, printed, ran>>

wavVars == <<samples, samplerate, wav, decoded, wpc>>

paramVars == <<min_speech_ms, trailing_silence_ms>>

manualVars == <<stop_evt, stop_ts, stop_len>>

mainVars == <<client, arg_mode, mpc, turns, posted>>

loopVars == <<paramVars, manualVars, mainVars>>

vars == <<vadVars, demuxVars, sinkVars, wavVars, loopVars>>

-----------------------------------------------------------------------------
(* Capture loop: configuration, scaled down.  Levels are the normalized RMS *)
(* multiplied by 100; times are in sample periods.                          *)

\* start_threshold = 0.02 and stop_threshold = 0.01, times 100
start_threshold == 2
stop_threshold == 1
\* the levels a frame can have: silent, between the thresholds, loud
Levels == 0 .. 2

\* blocksize (1024 in the code): samples per frame
blocksize == 2
\* min_speech_ms = 150 (2400 sample periods in the code)
default_min_speech_ms == 3
\* q.get(timeout=0.5), in sample periods        (8000 in the code)
get_timeout == 4
\* trailing_silence_ms = 700 (11200 sample periods in the code)
default_trailing_silence_ms == 5
\* int(max_seconds * samplerate)                (160000 in the code)
max_samples == 8

\* _record_until_event: q.get(timeout=0.1), in sample periods (1600 in the
\* code, between one and two blocks)
poll_timeout == 3

\* bounds of the exploration
MaxClock == 13
MaxFrames == 5
MaxQueue == 2
\* frames per capture and captures per run when main() is explored
MainFrames == 2
MaxTurns == 2

\* speech_start_ts = None, last_voice_ts = None
NoneTs == -1

\* lines 55-56: int(trailing_silence_ms * samplerate / 1000) and
\* int(min_speech_ms * samplerate / 1000); the parameters are already
\* counted in sample periods here
silence_limit_samples == trailing_silence_ms
min_speech_samples == min_speech_ms

\* wave.open(buf,'wb'); setnchannels(1); setsampwidth(2); setframerate(sr);
\* writeframes(concatenate(collected)):  the container's parameters and data
WavBytes(frames) ==
    [nchannels |-> 1, sampwidth |-> 2, framerate |-> 1, data |-> frames]

\* b""
EmptyBytes == [nchannels |-> 0, sampwidth |-> 0, framerate |-> 0, data |-> <<>>]

\* lines 100-109: what the function returns once the loop is left
Returned(coll) == IF coll = <<>> THEN EmptyBytes ELSE WavBytes(coll)

\* a slip that would open the utterance at the retention threshold
CrossesStartAtStop(lvl) == lvl >= stop_threshold

\* line 80: level >= start_threshold
CrossesStart(lvl) == lvl >= start_threshold

\* a slip that would lose the hysteresis: the start threshold used for retention
VoiceRetainedAtStart(lvl) == lvl >= start_threshold

\* line 89: level >= stop_threshold
VoiceRetained(lvl) == lvl >= stop_threshold

\* a slip that would end the capture one block late
SilenceReachedLate(t, sst, lvt) ==
    /\ t - sst >= min_speech_samples
    /\ t - lvt > silence_limit_samples + blocksize

\* a voice stamp taken at the start of the frame instead of at its dequeue
VoiceStampAtFrameStart(t) == t - blocksize

\* lines 83 and 90: last_voice_ts = time.time()
VoiceStamp(t) == t

\* a timeout test that does not look at started
StallReachedIdle(st, t, lvt) ==
    (t - lvt) > silence_limit_samples

\* a cap compared one block late
CapReachedLate(total) == total >= max_samples + blocksize

\* line 94: the per-frame trailing-silence test
SilenceReached(t, sst, lvt) ==
    /\ t - sst >= min_speech_samples
    /\ t - lvt >= silence_limit_samples

\* line 71: the test made when q.get times out
StallReached(st, t, lvt) ==
    st /\ (t - lvt) > silence_limit_samples

\* line 97: the hard cap
CapReached(total) == total >= max_samples

VadInit ==
    /\ now = 0
    /\ waitStart = 0
    /\ q = <<>>
    /\ produced = 0
    /\ lastCb = 0
    /\ started = FALSE
    /\ speech_start_ts = NoneTs
    /\ last_voice_ts = NoneTs
    /\ collected = <<>>
    /\ total_samples = 0
    /\ vpc = "loop"
    /\ exitPath = "none"
    /\ ret = EmptyBytes
    /\ loudest = 0
    /\ dipped = FALSE

\* Time passes.  While the consumer waits on an empty queue, q.get raises
\* queue.Empty when the timeout expires, so the clock does not run past
\* that instant before QueueEmpty is taken.  In the manual-stop loop time
\* passes only while q.get waits on an empty queue.
Tick ==
    /\ \/ vpc = "loop" /\ ~(q = <<>> /\ now - waitStart >= get_timeout)
       \/ vpc = "get" /\ q = <<>> /\ now - waitStart < poll_timeout
    /\ now < MaxClock
    /\ now' = now + 1
    /\ UNCHANGED <<waitStart, q, produced, lastCb, started, speech_start_ts,
                   last_voice_ts, collected, total_samples, vpc, exitPath,
                   ret, loudest, dipped>>
    /\ UNCHANGED <<demuxVars, sinkVars, wavVars, loopVars>>

\* the frames the device delivers in one capture (bound of the exploration)
FrameLimit == IF mpc = "none" THEN MaxFrames ELSE MainFrames

\* cb (lines 60-63): the device thread puts one frame of blocksize samples.
\* A frame holds blocksize samples of real time, so two callbacks are at
\* least blocksize sample periods apart; a stalled device delivers later.
Cb ==
    /\ vpc \in {"loop", "test", "get"}
    /\ produced < FrameLimit
    /\ Len(q) < MaxQueue
    /\ now - lastCb >= blocksize
    /\ \E lvl \in Levels :
         /\ q' = Append(q, [id |-> produced + 1, level |-> lvl, t |-> now])
         /\ loudest' = IF lvl > loudest THEN lvl ELSE loudest
    /\ produced' = produced + 1
    /\ lastCb' = now
    /\ UNCHANGED <<now, waitStart, started, speech_start_ts, last_voice_ts,
                   collected, total_samples, vpc, exitPath, ret, dipped>>
    /\ UNCHANGED <<demuxVars, sinkVars, wavVars, loopVars>>

\* One iteration of the while-loop in which q.get returned a frame
\* (lines 69, 75-98), with the return that follows a break (lines 100-109).
Dequeue ==
    /\ vpc = "loop"
    /\ q # <<>>
    /\ LET x == Head(q)
           total == total_samples + blocksize
           lvt == IF VoiceRetained(x.level) THEN VoiceStamp(now)
                  ELSE last_voice_ts
       IN
       /\ q' = Tail(q)
       /\ total_samples' = total
       /\ waitStart' = now
       /\ IF ~started
          THEN IF CrossesStart(x.level)
               THEN /\ started' = TRUE
                    /\ speech_start_ts' = now
                    /\ last_voice_ts' = VoiceStamp(now)
                    /\ collected' = Append(collected, x)
                    /\ dipped' = dipped
                    /\ IF CapReached(total)
                       THEN /\ vpc' = "done"
                            /\ exitPath' = "cap"
                            /\ ret' = Returned(collected')
                       ELSE UNCHANGED <<vpc, exitPath, ret>>
               ELSE \* continue: the cap test of line 97 is not reached
                    UNCHANGED <<started, speech_start_ts, last_voice_ts,
                                collected, dipped, vpc, exitPath, ret>>
          ELSE /\ collected' = Append(collected, x)
               /\ last_voice_ts' = lvt
               /\ dipped' = (dipped \/ x.level < stop_threshold)
               /\ UNCHANGED <<started, speech_start_ts>>
               /\ IF SilenceReached(now, speech_start_ts, lvt)
                  THEN /\ vpc' = "done"
                       /\ exitPath' = "silence"
                       /\ ret' = Returned(collected')
                  ELSE IF CapReached(total)
                       THEN /\ vpc' = "done"
                            /\ exitPath' = "cap"
                            /\ ret' = Returned(collected')
                       ELSE UNCHANGED <<vpc, exitPath, ret>>
    /\ UNCHANGED <<now, produced, lastCb, loudest>>
    /\ UNCHANGED <<demuxVars, sinkVars, wavVars, loopVars>>

\* One iteration in which q.get(timeout=0.5) raised queue.Empty
\* (lines 70-73), with the return that follows a break.
QueueEmpty ==
    /\ vpc = "loop"
    /\ q = <<>>
    /\ now - waitStart >= get_timeout
    /\ waitStart' = now
    /\ IF StallReached(started, now, last_voice_ts)
       THEN /\ vpc' = "done"
            /\ exitPath' = "stall"
            /\ ret' = Returned(collected)
       ELSE UNCHANGED <<vpc, exitPath, ret>>
    /\ UNCHANGED <<now, q, produced, lastCb, started, speech_start_ts,
                   last_voice_ts, collected, total_samples, loudest, dipped>>
    /\ UNCHANGED <<demuxVars, sinkVars, wavVars, loopVars>>

VadNext == Tick \/ Cb \/ Dequeue \/ QueueEmpty

-----------------------------------------------------------------------------
(* Manual-stop capture: mic_convo._record_until_event (lines 213-233) with    *)
(* the wait_enter thread of main (lines 294-301); the same loop is            *)
(* mic_llm_tts.record_until_enter (lines 89-129).                             *)

\* line 222: start = time.time(); the clock is counted from the call
start == 0

\* stop_evt.is_set() read as never set: a loop that cannot be cancelled
is_set_never(evt) == FALSE

\* line 224: stop_evt.is_set()
is_set(evt) == evt

\* a loop without the time limit
ElapsedNever(t) == FALSE

\* line 230: (time.time() - start) >= max_seconds
Elapsed(t) == t - start >= max_samples

\* wait_enter (lines 294-298): input() returned, stop_evt.set()
wait_enter ==
    /\ vpc \in {"test", "get"}
    /\ ~stop_evt
    /\ stop_evt' = TRUE
    /\ stop_ts' = now
    /\ stop_len' = Len(collected)
    /\ UNCHANGED <<vadVars, demuxVars, sinkVars, wavVars, paramVars, mainVars>>

\* line 224: while not stop_evt.is_set(), and the return of lines 232-240
\* when the loop is left
WhileTest ==
    /\ vpc = "test"
    /\ IF is_set(stop_evt)
       THEN /\ vpc' = "done"
            /\ exitPath' = "stop"
            /\ ret' = Returned(collected)
            /\ UNCHANGED waitStart
       ELSE /\ vpc' = "get"
            /\ waitStart' = now
            /\ UNCHANGED <<exitPath, ret>>
    /\ UNCHANGED <<now, q, produced, lastCb, started, speech_start_ts,
                   last_voice_ts, collected, total_samples, loudest, dipped>>
    /\ UNCHANGED <<demuxVars, sinkVars, wavVars, loopVars>>

\* lines 226-227 and 230-231: q.get returned a frame
Get ==
    /\ vpc = "get"
    /\ q # <<>>
    /\ collected' = Append(collected, Head(q))
    /\ q' = Tail(q)
    /\ IF Elapsed(now)
       THEN /\ vpc' = "done"
            /\ exitPath' = "cap"
            /\ ret' = Returned(collected')
       ELSE /\ vpc' = "test"
            /\ UNCHANGED <<exitPath, ret>>
    /\ UNCHANGED <<now, waitStart, produced, lastCb, started, speech_start_ts,
                   last_voice_ts, total_samples, loudest, dipped>>
    /\ UNCHANGED <<demuxVars, sinkVars, wavVars, loopVars>>

\* lines 228-231: q.get(timeout=0.1) raised queue.Empty
GetEmpty ==
    /\ vpc = "get"
    /\ q = <<>>
    /\ now - waitStart >= poll_timeout
    /\ IF Elapsed(now)
       THEN /\ vpc' = "done"
            /\ exitPath' = "cap"
            /\ ret' = Returned(collected)
       ELSE /\ vpc' = "test"
            /\ UNCHANGED <<exitPath, ret>>
    /\ UNCHANGED <<now, waitStart, q, produced, lastCb, started,
                   speech_start_ts, last_voice_ts, collected, total_samples,
                   loudest, dipped>>
    /\ UNCHANGED <<demuxVars, sinkVars, wavVars, loopVars>>

ManualNext == Tick \/ Cb \/ wait_enter \/ WhileTest \/ Get \/ GetEmpty

\* the locals of _record_until_event when the loop is entered
ManualInit ==
    /\ now = 0
    /\ waitStart = 0
    /\ q = <<>>
    /\ produced = 0
    /\ lastCb = 0
    /\ started = FALSE
    /\ speech_start_ts = NoneTs
    /\ last_voice_ts = NoneTs
    /\ collected = <<>>
    /\ total_samples = 0
    /\ vpc = "test"
    /\ exitPath = "none"
    /\ ret = EmptyBytes
    /\ loudest = 0
    /\ dipped = FALSE


-----------------------------------------------------------------------------
(* Client main loops: mic_convo.main (lines 259-313), mic_llm_tts.main       *)
(* (lines 210-229), prod_mic_convo.main (lines 187-212) and the one-shot     *)
(* mic_transcribe.main (lines 165-172).  Commands typed at the prompt other  *)
(* than /quit neither capture nor post audio.                                *)

Clients == {"mic_convo", "mic_llm_tts", "prod_mic_convo", "mic_transcribe"}

\* --mode: mic_convo and mic_llm_tts offer both captures, the others call
\* the auto-stop capture
Modes(c) ==
    IF c \in {"mic_convo", "mic_llm_tts"} THEN {"manual", "auto"} ELSE {"auto"}

NoSpeechNotice == "No speech detected"

\* a queue kept from one call to the next
SharedQueue(old) == old

\* line 48, line 214: q = queue.Queue()
NewQueue(old) == <<>>

\* a loop that posts whatever the capture returned
SubmittableAlways(w) == TRUE

\* line 307: if not wav ... continue
Submittable(w) == w # EmptyBytes

\* mic_convo.py 289-306, mic_llm_tts.py 219-225, prod_mic_convo.py 206-207,
\* mic_transcribe.py 165-167: the capture function is called and sets up
\* its locals (lines 48-52 and 66, or 214-222); the clock is counted from
\* the call
StartCapture ==
    /\ mpc = "prompt"
    /\ turns < MaxTurns
    /\ mpc' = "capture"
    /\ turns' = turns + 1
    /\ posted' = <<>>
    /\ now' = 0
    /\ waitStart' = 0
    /\ q' = NewQueue(q)
    /\ produced' = 0
    /\ lastCb' = 0
    /\ started' = FALSE
    /\ speech_start_ts' = NoneTs
    /\ last_voice_ts' = NoneTs
    /\ collected' = <<>>
    /\ total_samples' = 0
    /\ vpc' = IF arg_mode = "manual" THEN "test" ELSE "loop"
    /\ exitPath' = "none"
    /\ ret' = EmptyBytes
    /\ loudest' = 0
    /\ dipped' = FALSE
    /\ stop_evt' = FALSE
    /\ stop_ts' = NoneTs
    /\ stop_len' = 0
    /\ UNCHANGED <<client, arg_mode, paramVars>>
    /\ UNCHANGED <<demuxVars, sinkVars, wavVars>>

\* mic_convo.py 307-313, mic_llm_tts.py 226-229, prod_mic_convo.py 208-212,
\* mic_transcribe.py 168-172: the capture returned; an empty result is
\* reported, anything else is posted
AfterCapture ==
    /\ mpc = "capture"
    /\ vpc = "done"
    /\ IF Submittable(ret)
       THEN /\ posted' = <<ret>>
            /\ UNCHANGED printed
       ELSE /\ printed' = Append(printed, NoSpeechNotice)
            /\ UNCHANGED posted
    /\ mpc' = IF client = "mic_transcribe" THEN "exit" ELSE "prompt"
    /\ UNCHANGED <<client, arg_mode, turns>>
    /\ UNCHANGED <<tools, pi_mode, play, audio_bytes, saved, ran>>
    /\ UNCHANGED <<vadVars, demuxVars, wavVars, paramVars, manualVars>>

\* mic_convo.py 260-267: /quit, or end of input at the prompt
Quit ==
    /\ mpc = "prompt"
    /\ client # "mic_transcribe"
    /\ mpc' = "exit"
    /\ UNCHANGED <<client, arg_mode, turns, posted>>
    /\ UNCHANGED <<vadVars, demuxVars, sinkVars, wavVars, paramVars, manualVars>>

MainNext ==
    \/ StartCapture \/ AfterCapture \/ Quit
    \/ Tick \/ Cb \/ Dequeue \/ QueueEmpty
    \/ wait_enter \/ WhileTest \/ Get \/ GetEmpty

-----------------------------------------------------------------------------
(* Bytes.  A byte string is a sequence of symbols.  "CR", "LF", "SP", "-",  *)
(* ":", ";", "Q" (the double quote) and the letters are single bytes; a     *)
(* header name, a media type, "boundary=" or a decimal digit is one symbol  *)
(* standing for the bytes of that word, which the parsers never split.      *)

\* the bytes bytes.strip() and str.strip() remove
Whitespace == {"SP", "TAB", "CR", "LF"}

CRLF == <<"CR", "LF">>

MinOf(S) == CHOOSE x \in S : \A y \in S : x <= y
MaxOf(S) == CHOOSE x \in S : \A y \in S : x >= y

\* s[i:] and s[:n], 1-based
From(s, i) == SubSeq(s, i, Len(s))
Upto(s, n) == SubSeq(s, 1, IF n < Len(s) THEN n ELSE Len(s))

\* bytes.strip(): leading and trailing whitespace removed
Strip(s) ==
    LET keep == {i \in 1 .. Len(s) : s[i] \notin Whitespace}
    IN IF keep = {} THEN <<>> ELSE SubSeq(s, MinOf(keep), MaxOf(keep))

\* s.startswith(p), s.endswith(p)
StartsWith(s, p) == Len(p) <= Len(s) /\ SubSeq(s, 1, Len(p)) = p
EndsWith(s, p) ==
    Len(p) <= Len(s) /\ SubSeq(s, Len(s) - Len(p) + 1, Len(s)) = p

\* s.find(p) + 1: the first position at which p occurs in s, 0 if none
Find(s, p) ==
    LET hits == {i \in 1 .. Len(s) - Len(p) + 1 : SubSeq(s, i, i + Len(p) - 1) = p}
    IN IF hits = {} THEN 0 ELSE MinOf(hits)

\* p in s
Contains(s, p) == Find(s, p) # 0

\* s.split(sep)
RECURSIVE Split(_, _)
Split(s, sep) ==
    LET i == Find(s, sep)
    IN IF i = 0 THEN <<s>>
       ELSE <<SubSeq(s, 1, i - 1)>> \o Split(From(s, i + Len(sep)), sep)

\* s.split(sep, 1)
Split1(s, sep) ==
    LET i == Find(s, sep)
    IN IF i = 0 THEN <<s>>
       ELSE <<SubSeq(s, 1, i - 1), From(s, i + Len(sep))>>

\* decode('utf-8', errors='ignore'): bytes that are not valid UTF-8 vanish
Decode(s) == SelectSeq(s, LAMBDA b : b # "xFF")

\* str.lower(), symbol by symbol
LowerSym(b) ==
    CASE b = "Content-Type" -> "content-type"
      [] b = "Content-Length" -> "content-length"
      [] b = "BOUNDARY=" -> "boundary="
      [] OTHER -> b
Lower(s) == [i \in 1 .. Len(s) |-> LowerSym(s[i])]

\* key, _, val = line.partition(':')
Partition(line) ==
    LET i == Find(line, <<":">>)
    IN IF i = 0 THEN [key |-> line, val |-> <<>>]
       ELSE [key |-> SubSeq(line, 1, i - 1), val |-> From(line, i + 1)]

\* key, _, val = line.decode(...).partition(':');
\* headers[key.lower().strip()] = val.strip()     (one dict assignment)
HeaderItem(line) ==
    LET kv == Partition(Decode(line))
    IN [key |-> Strip(Lower(kv.key)), val |-> Strip(kv.val)]

\* headers.get(name, default): the dict holds the last value assigned
HeaderGet(items, name, default) ==
    LET hits == {i \in 1 .. Len(items) : items[i].key = <<name>>}
    IN IF hits = {} THEN default ELSE items[MaxOf(hits)].val

\* the decimal digits, and int(s) for a str of digits ("ValueError" if the
\* str is not a decimal number)
Digits == <<"0", "1", "2", "3", "4", "5", "6", "7", "8", "9">>
DigitVal(b) == (CHOOSE i \in 1 .. 10 : Digits[i] = b) - 1
IsDigit(b) == \E i \in 1 .. 10 : Digits[i] = b
RECURSIVE Decimal(_)
Decimal(s) ==
    IF s = <<>> THEN 0
    ELSE 10 * Decimal(SubSeq(s, 1, Len(s) - 1)) + DigitVal(s[Len(s)])
IsNumber(s) ==
    LET t == Strip(s)
        d == IF t # <<>> /\ t[1] = "-" THEN Tail(t) ELSE t
    IN d # <<>> /\ \A i \in 1 .. Len(d) : IsDigit(d[i])
IntOf(s) ==
    LET t == Strip(s)
    IN IF t[1] = "-" THEN 0 - Decimal(Tail(t)) ELSE Decimal(t)

\* str(n) for 0 <= n <= 99
Str(n) == IF n < 10 THEN <<Digits[n + 1]>>
          ELSE <<Digits[(n \div 10) + 1], Digits[(n % 10) + 1]>>

\* 'application/json' in pctype; 'audio/' in pctype;
\* pctype == 'application/octet-stream'
HasJson(b) == b \in {"application/json", "application/json-seq"}
HasAudio(b) == b \in {"audio/wav", "audio/mpeg"}
IsJsonType(ct) == \E i \in 1 .. Len(ct) : HasJson(ct[i])
IsBinaryType(ct) ==
    \/ \E i \in 1 .. Len(ct) : HasAudio(ct[i])
    \/ ct = <<"application/octet-stream">>

\* the sink a part is routed to (mic_convo.py 148-152,
\* call_transcribe.py 89-94): "json", "audio" or "none"
Route(ct) ==
    IF IsJsonType(ct) THEN "json"
    ELSE IF IsBinaryType(ct) THEN "audio"
    ELSE "none"

-----------------------------------------------------------------------------
(* The multipart/mixed envelope as the server writes it (the server is not  *)
(* part of scripts/): "--B" lines between parts, "--B--" at the end,        *)
(* per-part Content-Type and optional Content-Length, a blank line, the     *)
(* body, CRLF.                                                              *)

\* the boundary token the server uses, and its delimiter lines
ServerBoundary == <<"B">>
Dashes == <<"-", "-">>

\* at most this many parts in an envelope
MaxParts == 2

\* the content types and the bodies a part may have
CTypes == {"application/json", "audio/wav", "application/octet-stream",
           "text/plain"}
JsonDoc == <<"{", "}">>
Bodies == {<<"a">>, <<"a", "SP">>, <<"a", "-", "-">>, JsonDoc}

PartSet == [ctype : CTypes, body : Bodies]
Envelopes == UNION {[1 .. n -> PartSet] : n \in 1 .. MaxParts}

PartBytes(p, len) ==
    <<"Content-Type", ":", "SP", p.ctype>> \o CRLF
    \o (IF len THEN <<"Content-Length", ":", "SP">> \o Str(Len(p.body)) \o CRLF
        ELSE <<>>)
    \o CRLF \o p.body \o CRLF

RECURSIVE EnvelopeBytes(_, _)
EnvelopeBytes(ps, len) ==
    IF ps = <<>> THEN Dashes \o ServerBoundary \o Dashes \o CRLF
    ELSE Dashes \o ServerBoundary \o CRLF \o PartBytes(Head(ps), len)
         \o EnvelopeBytes(Tail(ps), len)

\* what follows the last body on the wire: CRLF "--B--" CRLF
TailBytes == CRLF \o Dashes \o ServerBoundary \o Dashes \o CRLF

\* the connection may close inside the last body: the wire is the envelope
\* with its tail and the last  lost  bytes of the last body missing
Truncated(ps, len, lost) ==
    LET full == EnvelopeBytes(ps, len)
    IN IF lost = 0 THEN full
       ELSE SubSeq(full, 1, Len(full) - Len(TailBytes) - lost)

\* Malformed envelopes.  Two parts are sent and the first is damaged, or the
\* framing after it is:
\*   "junkline"    a line that is no boundary follows the first body
\*   "eofheaders"  the stream ends inside the header block of the second part
\*   "badlength"   Content-Length of the first part is not a number
\*   "neglength"   Content-Length of the first part is negative
\*   "badbyte"     a header line of the first part holds bytes that are not UTF-8
\*   "nocolon"     the header block of the first part is a line without ':'
\*   "noboundary"  no boundary line appears anywhere in the body
\*   "nosep"       no blank line between the first part's headers and its body
\*   "barelf"      the first part's header lines and blank line end in bare LF
Faults == {"junkline", "eofheaders", "badlength", "neglength", "badbyte",
           "nocolon", "noboundary", "nosep", "barelf",
           "aftermarker", "epilogue"}

FaultCTypes == {"application/json", "audio/wav", "text/plain"}
FaultBodies == {<<>>, <<"a">>, <<"a", "SP">>, JsonDoc}
FaultPartSet == [ctype : FaultCTypes, body : FaultBodies]
FaultEnvelopes == [1 .. 2 -> FaultPartSet]

LF == <<"LF">>

\* the header block of a part: lines ended by eol, Content-Length: cl unless
\* cl is empty
HeaderBytes(p, cl, eol) ==
    <<"Content-Type", ":", "SP", p.ctype>> \o eol
    \o (IF cl # <<>> THEN <<"Content-Length", ":", "SP">> \o cl \o eol ELSE <<>>)

\* the first part as the wire carries it under fault f
FaultyPart(p, len, f) ==
    LET cl == IF f = "badlength" THEN <<"x">>
              ELSE IF f = "neglength" THEN <<"-", "1">>
              ELSE IF len THEN Str(Len(p.body)) ELSE <<>>
    IN CASE f = "barelf" -> HeaderBytes(p, cl, LF) \o LF \o p.body \o CRLF
         [] f = "nosep" -> HeaderBytes(p, cl, CRLF) \o p.body \o CRLF
         [] f = "nocolon" -> <<"junk">> \o CRLF \o CRLF \o p.body \o CRLF
         [] f = "badbyte" -> <<"xFF", "X-Junk", ":", "xFF">> \o CRLF
                             \o HeaderBytes(p, cl, CRLF) \o CRLF \o p.body \o CRLF
         [] OTHER -> HeaderBytes(p, cl, CRLF) \o CRLF \o p.body \o CRLF

\* the two-part envelope under fault f
FaultyEnvelope(ps, len, f) ==
    LET open == Dashes \o ServerBoundary \o CRLF
        first == open \o FaultyPart(ps[1], len, f)
        second == open \o PartBytes(ps[2], len)
        close == Dashes \o ServerBoundary \o Dashes \o CRLF
    IN CASE f = "junkline" -> first \o <<"junk">> \o CRLF \o second \o close
         [] f = "eofheaders" ->
              first \o open \o <<"Content-Type", ":", "SP", ps[2].ctype>> \o CRLF
         [] f = "noboundary" -> PartBytes(ps[1], len) \o PartBytes(ps[2], len)
         [] f = "aftermarker" -> first \o close \o second \o close
         [] f = "epilogue" -> first \o close \o PartBytes(ps[2], len)
         [] OTHER -> first \o second \o close

-----------------------------------------------------------------------------
(* Boundary discovery *)

\* [^";]
NotQuoteSemi(b) == b \notin {"Q", ";"}

\* re.search(r"boundary=\s*\"?([^\";]+)\"?", ctype, flags=re.IGNORECASE) tried
\* at the "boundary=" symbol i: the position at which group 1 starts, or 0.
\* \s* is greedy and gives whitespace back when nothing else can start the
\* group.
GroupStartAt(ct, i) ==
    LET n == Len(ct)
        w == IF \E j \in i + 1 .. n : ct[j] \notin Whitespace
             THEN MinOf({j \in i + 1 .. n : ct[j] \notin Whitespace}) - i - 1
             ELSE n - i
        StartFor(k) ==
            LET pp == i + k + 1
            IN IF pp <= n /\ ct[pp] = "Q" /\ pp + 1 <= n /\ NotQuoteSemi(ct[pp + 1])
               THEN pp + 1
               ELSE IF pp <= n /\ NotQuoteSemi(ct[pp]) THEN pp
               ELSE 0
        ok == {k \in 0 .. w : StartFor(k) # 0}
    IN IF ok = {} THEN 0 ELSE StartFor(MaxOf(ok))

\* group 1: the longest run of [^";] from position st
GroupFrom(ct, st) ==
    LET stops == {j \in st .. Len(ct) : ~NotQuoteSemi(ct[j])}
    IN SubSeq(ct, st, IF stops = {} THEN Len(ct) ELSE MinOf(stops) - 1)

\* m.group(1) of the leftmost match, <<>> when m is None
RegexBoundary(ct) ==
    LET occ == {i \in 1 .. Len(ct) :
                   LowerSym(ct[i]) = "boundary=" /\ GroupStartAt(ct, i) # 0}
    IN IF occ = {} THEN <<>>
       ELSE GroupFrom(ct, GroupStartAt(ct, MinOf(occ)))

\* a slip that would make up a boundary when the response names none
DiscoverBoundaryDefault(ct, xb) ==
    IF RegexBoundary(ct) # <<>> THEN RegexBoundary(ct)
    ELSE IF Strip(xb) # <<>> THEN Strip(xb) ELSE ServerBoundary

\* mic_convo.py 123-125, call_transcribe.py 59-61:
\* boundary = m.group(1) if m else (resp.getheader('X-Boundary') or '').strip()
DiscoverBoundary(ct, xb) ==
    IF RegexBoundary(ct) # <<>> THEN RegexBoundary(ct) ELSE Strip(xb)

\* play_waifu.py 183-186: the text after the first "boundary=", stripped;
\* <<>> stands for None
StreamBoundary(ct) ==
    LET i == Find(ct, <<"boundary=">>)
    IN IF i = 0 THEN <<>> ELSE Strip(From(ct, i + 1))

-----------------------------------------------------------------------------
(* Reading from the transport *)

\* resp.readline() at offset p: up to and including the next LF, or what is
\* left before the end of the stream
ReadLine(w, p) ==
    LET rest == From(w, p + 1)
        i == Find(rest, <<"LF">>)
    IN IF i = 0 THEN rest ELSE SubSeq(rest, 1, i)

\* resp.read(n) at offset p: n bytes, fewer only at the end of the stream
Read(w, p, n) ==
    IF n < 0 THEN From(w, p + 1) ELSE Upto(From(w, p + 1), n)

\* min(remaining, 64 * 1024): the largest chunk read at once, scaled down
ChunkBytes == 2

MissingBoundary == "RuntimeError: Missing multipart boundary"

\* on_json(body) / on_audio(body, ctype) / write_bytes(chunk)
Call(sink, body, ct) ==
    [sink |-> sink, body |-> body, ctype |-> ct, part |-> partNo,
     hasLength |-> HeaderGet(headers, "content-length", <<>>) # <<>>,
     declared |-> HeaderGet(headers, "content-length", <<"0">>)]

\* the sink calls that routing a decoded part makes
RouteCalls(ct, body) ==
    IF Route(ct) = "none" THEN <<>> ELSE <<Call(Route(ct), body, ct)>>

\* the parser function returns: the whole-buffer and length-framed entry
\* points are the parser; in play_waifu the bridge goes on to close the sink
ParserReturns ==
    IF mode = "stream"
    THEN dpc' = "finish" /\ UNCHANGED <<outcome, stdinOpen>>
    ELSE dpc' = "done" /\ outcome' = "returned" /\ UNCHANGED stdinOpen

\* an exception leaves the entry point
Raises(exc) ==
    /\ dpc' = "done"
    /\ outcome' = exc

\* print(f"Saved audio to {out}") and the notice printed when no player is
\* found
SavedNotice == "Saved audio to"
NoPlayerNotice == "No audio player found"

\* subprocess.Popen([ff, ...], stdin=PIPE) when ffplay was found; with afplay
\* only, no process is started until the transfer is over
Started == IF ffplay THEN "running" ELSE "none"

\* proc.wait(): the player has exited when it returns
Waited(p) == IF p = "running" THEN "exited" ELSE p

\* a slip that would leave the player alone when an exception passes
CleanupNone(p) == p

\* finally: if proc.poll() is None: proc.kill()
Cleanup(p) == IF p = "running" THEN "killed" ELSE p

\* proc.stdin.write(b) / proc.stdin.close() on the pipe of a player that has
\* exited: the bytes may stay in the writer's buffer, or the write to the
\* pipe fails with BrokenPipeError
PipeBreaks == IF stdinOpen /\ player = "exited" THEN BOOLEAN ELSE {FALSE}

inputVars == <<mode, ffplay, afplay, status, respCtype, xBoundary, parts,
               withLength, fault, wire>>

\* mic_convo.parse_multipart, lines 123-130
EntryBuffer ==
    /\ dpc = "entry" /\ mode = "buffer"
    /\ LET b == DiscoverBoundary(respCtype, xBoundary)
       IN IF b = <<>>
          THEN /\ Raises(MissingBoundary)
               /\ UNCHANGED <<pos, boundary, segs, segIdx>>
          ELSE /\ boundary' = b
               /\ pos' = Len(wire)
               /\ segs' = Split(wire, Dashes \o b)
               /\ segIdx' = 1
               /\ dpc' = "segment"
               /\ UNCHANGED outcome
    /\ UNCHANGED <<inputVars, headers, remaining, partNo, calls, stdinOpen>>
    /\ UNCHANGED player
    /\ UNCHANGED <<vadVars, sinkVars, wavVars, loopVars>>

\* the segment as trimmed by lines 132-138; <<>> when line 133 skips it
TrimSegment(seg) ==
    LET a == Strip(seg)
        b == IF StartsWith(a, CRLF) THEN From(a, 3) ELSE a
        c == IF EndsWith(b, Dashes) THEN SubSeq(b, 1, Len(b) - 2) ELSE b
    IN IF a = <<>> \/ a = Dashes THEN <<>> ELSE c

\* lines 141-147: the headers dict of a trimmed segment
SegmentHeaders(part) ==
    LET blob == Split1(part, CRLF \o CRLF)[1]
        lines == SelectSeq(Split(blob, CRLF), LAMBDA l : l # <<>>)
    IN [i \in 1 .. Len(lines) |-> HeaderItem(lines[i])]

\* a slip that would give up the whole buffer at a segment without a blank
\* line
SegmentStopsAtMalformed ==
    /\ dpc = "segment" /\ mode = "buffer"
    /\ LET part == TrimSegment(segs[segIdx])
           usable == part # <<>> /\ Contains(part, CRLF \o CRLF)
           hs == IF usable THEN SegmentHeaders(part) ELSE <<>>
           body == IF usable THEN Split1(part, CRLF \o CRLF)[2] ELSE <<>>
           pctype == HeaderGet(hs, "content-type", <<>>)
       IN /\ headers' = hs
          /\ partNo' = IF usable THEN partNo + 1 ELSE partNo
          /\ calls' = IF usable
                      THEN calls \o
                           (IF Route(pctype) = "none" THEN <<>>
                            ELSE <<[sink |-> Route(pctype), body |-> body,
                                    ctype |-> pctype, part |-> partNo + 1,
                                    hasLength |->
                                       HeaderGet(hs, "content-length", <<>>) # <<>>,
                                    declared |->
                                       HeaderGet(hs, "content-length", <<"0">>)]>>)
                      ELSE calls
          /\ IF segIdx = Len(segs) \/ (part # <<>> /\ ~usable)
             THEN dpc' = "done" /\ outcome' = "returned"
             ELSE UNCHANGED <<dpc, outcome>>
    /\ segIdx' = segIdx + 1
    /\ UNCHANGED <<inputVars, pos, boundary, remaining, segs, stdinOpen>>
    /\ UNCHANGED player
    /\ UNCHANGED <<vadVars, sinkVars, wavVars, loopVars>>

\* mic_convo.parse_multipart, one iteration of the for-loop (lines 131-152)
\* and the return when the list is exhausted
Segment ==
    /\ dpc = "segment" /\ mode = "buffer"
    /\ LET part == TrimSegment(segs[segIdx])
           usable == part # <<>> /\ Contains(part, CRLF \o CRLF)
           hs == IF usable THEN SegmentHeaders(part) ELSE <<>>
           body == IF usable THEN Split1(part, CRLF \o CRLF)[2] ELSE <<>>
           pctype == HeaderGet(hs, "content-type", <<>>)
       IN /\ headers' = hs
          /\ partNo' = IF usable THEN partNo + 1 ELSE partNo
          /\ calls' = IF usable
                      THEN calls \o
                           (IF Route(pctype) = "none" THEN <<>>
                            ELSE <<[sink |-> Route(pctype), body |-> body,
                                    ctype |-> pctype, part |-> partNo + 1,
                                    hasLength |->
                                       HeaderGet(hs, "content-length", <<>>) # <<>>,
                                    declared |->
                                       HeaderGet(hs, "content-length", <<"0">>)]>>)
                      ELSE calls
    /\ segIdx' = segIdx + 1
    /\ IF segIdx = Len(segs)
       THEN dpc' = "done" /\ outcome' = "returned"
       ELSE UNCHANGED <<dpc, outcome>>
    /\ UNCHANGED <<inputVars, pos, boundary, remaining, segs, stdinOpen>>
    /\ UNCHANGED player
    /\ UNCHANGED <<vadVars, sinkVars, wavVars, loopVars>>

\* call_transcribe.parse_multipart, lines 59-65
EntryFramed ==
    /\ dpc = "entry" /\ mode = "framed"
    /\ LET b == DiscoverBoundary(respCtype, xBoundary)
       IN IF b = <<>>
          THEN Raises(MissingBoundary) /\ UNCHANGED boundary
          ELSE boundary' = b /\ dpc' = "sync" /\ UNCHANGED outcome
    /\ UNCHANGED <<inputVars, pos, headers, remaining, segs, segIdx, partNo,
                   calls, stdinOpen>>
    /\ UNCHANGED player
    /\ UNCHANGED <<vadVars, sinkVars, wavVars, loopVars>>

\* play_waifu.stream_multipart_to_player, lines 173-191 and 203-206
EntryStream ==
    /\ dpc = "entry" /\ mode = "stream"
    /\ IF ~ffplay /\ ~afplay
       THEN Raises("SystemExit: 2") /\ UNCHANGED <<boundary, stdinOpen, player>>
       ELSE IF status # 200
       THEN Raises("RuntimeError: HTTP") /\ UNCHANGED <<boundary, stdinOpen, player>>
       ELSE IF StreamBoundary(respCtype) = <<>>
       THEN Raises(MissingBoundary) /\ UNCHANGED <<boundary, stdinOpen, player>>
       ELSE /\ boundary' = StreamBoundary(respCtype)
            /\ stdinOpen' = ffplay
            /\ player' = Started
            /\ dpc' = "sync"
            /\ UNCHANGED outcome
    /\ UNCHANGED <<inputVars, pos, headers, remaining, segs, segIdx, partNo,
                   calls>>
    /\ printed' = IF ~ffplay /\ ~afplay THEN Append(printed, NoPlayerNotice)
                   ELSE printed
    /\ UNCHANGED <<tools, pi_mode, play, audio_bytes, saved, ran>>
    /\ UNCHANGED <<vadVars, wavVars, loopVars>>

\* one readline of the loop that looks for the first boundary
\* (call_transcribe.py 71-76, play_waifu.py 130-135)
Sync ==
    /\ dpc = "sync"
    /\ LET line == ReadLine(wire, pos)
       IN /\ pos' = pos + Len(line)
          /\ IF line = <<>>
             THEN ParserReturns /\ UNCHANGED <<headers, partNo>>
             ELSE IF Strip(line) = Dashes \o boundary
             THEN /\ dpc' = "headers"
                  /\ headers' = <<>>
                  /\ partNo' = partNo + 1
                  /\ UNCHANGED <<outcome, stdinOpen>>
             ELSE UNCHANGED <<dpc, headers, partNo, outcome, stdinOpen>>
    /\ UNCHANGED <<inputVars, boundary, remaining, segs, segIdx, calls>>
    /\ UNCHANGED player
    /\ UNCHANGED <<vadVars, sinkVars, wavVars, loopVars>>

\* one readline of the header loop
\* (call_transcribe.py 80-87, play_waifu.py 140-147)
HeaderLine ==
    /\ dpc = "headers"
    /\ LET line == ReadLine(wire, pos)
       IN /\ pos' = pos + Len(line)
          /\ IF line = <<>>
             THEN ParserReturns /\ UNCHANGED headers
             ELSE IF line \in {CRLF, <<"LF">>}
             THEN dpc' = "body" /\ UNCHANGED <<headers, outcome, stdinOpen>>
             ELSE /\ headers' = Append(headers, HeaderItem(line))
                  /\ UNCHANGED <<dpc, outcome, stdinOpen>>
    /\ UNCHANGED <<inputVars, boundary, remaining, segs, segIdx, partNo, calls>>
    /\ UNCHANGED player
    /\ UNCHANGED <<vadVars, sinkVars, wavVars, loopVars>>

\* call_transcribe.py 88-94: the body is read and routed
Body ==
    /\ dpc = "body" /\ mode = "framed"
    /\ LET cl == HeaderGet(headers, "content-length", <<"0">>)
           ctype == HeaderGet(headers, "content-type", <<>>)
       IN IF ~IsNumber(cl)
          THEN Raises("ValueError") /\ UNCHANGED <<pos, calls>>
          ELSE LET length == IntOf(cl)
                   body == IF length # 0 THEN Read(wire, pos, length) ELSE <<>>
               IN /\ pos' = pos + Len(body)
                  /\ calls' = calls \o RouteCalls(ctype, body)
                  /\ dpc' = "next"
                  /\ UNCHANGED outcome
    /\ UNCHANGED <<inputVars, boundary, headers, remaining, segs, segIdx,
                   partNo, stdinOpen>>
    /\ UNCHANGED player
    /\ UNCHANGED <<vadVars, sinkVars, wavVars, loopVars>>

\* play_waifu.py 149-150: length = int(...); remaining = length
StreamLength ==
    /\ dpc = "body" /\ mode = "stream"
    /\ LET cl == HeaderGet(headers, "content-length", <<"0">>)
       IN IF ~IsNumber(cl)
          THEN /\ Raises("ValueError")
               /\ player' = Cleanup(player)
               /\ UNCHANGED remaining
          ELSE /\ remaining' = IntOf(cl)
               /\ dpc' = "chunk"
               /\ UNCHANGED <<outcome, player>>
    /\ UNCHANGED <<inputVars, pos, boundary, headers, segs, segIdx, partNo,
                   calls, stdinOpen>>
    /\ UNCHANGED <<vadVars, sinkVars, wavVars, loopVars>>

\* a slip that would ask for a full chunk whatever is left of the part
ChunkSizeWhole(left) == ChunkBytes

\* play_waifu.py 152: min(remaining, 64 * 1024)
ChunkSize(left) == IF left < ChunkBytes THEN left ELSE ChunkBytes

\* play_waifu.py 151-156: one test of  remaining > 0  and, if it holds, one
\* chunk read and written to the sink
Chunk ==
    /\ dpc = "chunk" /\ mode = "stream"
    /\ IF remaining > 0
       THEN LET chunk == Read(wire, pos, ChunkSize(remaining))
            IN /\ pos' = pos + Len(chunk)
               /\ IF chunk = <<>>
                  THEN ParserReturns /\ UNCHANGED <<calls, remaining, player>>
                  ELSE \E broken \in PipeBreaks :
                         IF broken
                         THEN /\ Raises("BrokenPipeError")
                              /\ player' = Cleanup(player)
                              /\ UNCHANGED <<calls, remaining, stdinOpen>>
                         ELSE /\ calls' = Append(calls,
                                     Call("player", chunk,
                                          HeaderGet(headers, "content-type", <<>>)))
                              /\ remaining' = remaining - Len(chunk)
                              /\ UNCHANGED <<dpc, outcome, stdinOpen, player>>
       ELSE /\ dpc' = "next"
            /\ UNCHANGED <<pos, calls, remaining, outcome, stdinOpen, player>>
    /\ UNCHANGED <<inputVars, boundary, headers, segs, segIdx, partNo>>
    /\ UNCHANGED <<vadVars, sinkVars, wavVars, loopVars>>

\* a slip that would take any line after a body for a boundary line
NextBoundaryLenient ==
    /\ dpc = "next"
    /\ LET crlf == Read(wire, pos, 2)
           line == ReadLine(wire, pos + Len(crlf))
       IN /\ pos' = pos + Len(crlf) + Len(line)
          /\ IF line = <<>> \/ Strip(line) = Dashes \o boundary \o Dashes
             THEN ParserReturns /\ UNCHANGED <<headers, partNo>>
             ELSE /\ dpc' = "headers"
                  /\ headers' = <<>>
                  /\ partNo' = partNo + 1
                  /\ UNCHANGED <<outcome, stdinOpen>>
    /\ UNCHANGED <<inputVars, boundary, remaining, segs, segIdx, calls>>
    /\ UNCHANGED player
    /\ UNCHANGED <<vadVars, sinkVars, wavVars, loopVars>>

\* the CRLF after the body and the line that must be a boundary
\* (call_transcribe.py 96-102, play_waifu.py 158-169)
NextBoundary ==
    /\ dpc = "next"
    /\ LET crlf == Read(wire, pos, 2)
           line == ReadLine(wire, pos + Len(crlf))
       IN /\ pos' = pos + Len(crlf) + Len(line)
          /\ IF line = <<>> \/ Strip(line) = Dashes \o boundary \o Dashes
             THEN ParserReturns /\ UNCHANGED <<headers, partNo>>
             ELSE IF Strip(line) # Dashes \o boundary
             THEN ParserReturns /\ UNCHANGED <<headers, partNo>>
             ELSE /\ dpc' = "headers"
                  /\ headers' = <<>>
                  /\ partNo' = partNo + 1
                  /\ UNCHANGED <<outcome, stdinOpen>>
    /\ UNCHANGED <<inputVars, boundary, remaining, segs, segIdx, calls>>
    /\ UNCHANGED player
    /\ UNCHANGED <<vadVars, sinkVars, wavVars, loopVars>>

\* play_waifu.py 197-202 and 93-98 (stdin closed, player waited for) or
\* 210-216 and 113-119 (the temporary file played): the bridge returns.
\* Closing the pipe flushes it, which fails if the player is gone.
Finish ==
    /\ dpc = "finish" /\ mode \in {"stream", "raw"}
    /\ stdinOpen' = FALSE
    /\ dpc' = "done"
    /\ \E broken \in PipeBreaks :
         IF broken
         THEN outcome' = "BrokenPipeError" /\ player' = Cleanup(player)
         ELSE outcome' = "returned" /\ player' = Waited(player)
    /\ UNCHANGED <<inputVars, pos, boundary, headers, remaining, segs, segIdx,
                   partNo, calls>>
    /\ UNCHANGED <<vadVars, sinkVars, wavVars, loopVars>>

DemuxNext ==
    \/ EntryBuffer \/ Segment
    \/ EntryFramed \/ EntryStream
    \/ Sync \/ HeaderLine \/ Body \/ StreamLength \/ Chunk \/ NextBoundary
    \/ Finish

\* the parser's own variables before the entry point is called
DemuxStart ==
    /\ pos = 0
    /\ boundary = <<>>
    /\ dpc = "entry"
    /\ headers = <<>>
    /\ remaining = 0
    /\ segs = <<>>
    /\ segIdx = 0
    /\ partNo = 0
    /\ calls = <<>>
    /\ stdinOpen = FALSE
    /\ player = "none"
    /\ outcome = "none"

\* a multipart response as the server announces it
GoodCtype == <<"multipart/mixed", ";", "SP", "boundary=">> \o ServerBoundary

\* the bytes of its last body that a closing connection may lose
LostChoices(ps) == 0 .. Len(ps[Len(ps)].body)

\* Responses with a well-announced boundary and every envelope of up to
\* MaxParts parts, complete or cut inside the last body.
DemuxInit ==
    /\ mode \in {"buffer", "framed", "stream"}
    /\ ffplay = TRUE /\ afplay = FALSE
    /\ status = 200
    /\ respCtype = GoodCtype
    /\ xBoundary = <<>>
    /\ parts \in Envelopes
    /\ withLength \in BOOLEAN
    /\ fault = "none"
    /\ \E lost \in LostChoices(parts) : wire = Truncated(parts, withLength, lost)
    /\ DemuxStart

\* what a response may say in Content-Type and X-Boundary
RespCtypes ==
    { <<>>,
      <<"application/json">>,
      <<"application/json", ";", "SP", "charset=utf-8">>,
      <<"multipart/mixed">>,
      <<"multipart/mixed", ";", "SP", "boundary=">>,
      GoodCtype,
      <<"multipart/mixed", ";", "SP", "BOUNDARY=">> \o ServerBoundary,
      <<"multipart/mixed", ";", "SP", "boundary=", "Q">> \o ServerBoundary \o <<"Q">>,
      GoodCtype \o <<";", "SP", "charset=utf-8">> }
XBoundaries == { <<>>, ServerBoundary, <<"SP">> \o ServerBoundary \o <<"SP">> }

\* the envelope used while the response headers vary: one audio part
OnePart == <<[ctype |-> "audio/wav", body |-> <<"a">>]>>

\* Every response header combination, at each of the three entry points;
\* player availability and status are read by the play_waifu bridge only.
EntryInit ==
    /\ mode \in {"buffer", "framed", "stream"}
    /\ ffplay \in BOOLEAN /\ afplay \in BOOLEAN
    /\ status \in {200, 204}
    /\ mode # "stream" => (ffplay /\ ~afplay /\ status = 200)
    /\ respCtype \in RespCtypes
    /\ xBoundary \in XBoundaries
    /\ parts = OnePart
    /\ withLength = TRUE
    /\ fault = "none"
    /\ wire = EnvelopeBytes(OnePart, TRUE)
    /\ DemuxStart

\* Responses with a well-announced boundary whose two-part envelope is
\* malformed in one of the ways of Faults, at each of the three parsers.
FaultInit ==
    /\ mode \in {"buffer", "framed", "stream"}
    /\ ffplay = TRUE /\ afplay = FALSE
    /\ status = 200
    /\ respCtype = GoodCtype
    /\ xBoundary = <<>>
    /\ parts \in FaultEnvelopes
    /\ withLength \in BOOLEAN
    /\ fault \in Faults
    /\ wire = FaultyEnvelope(parts, withLength, fault)
    /\ DemuxStart

-----------------------------------------------------------------------------
(* The playback entry points: play_waifu.stream_to_player (mode "raw"),     *)
(* mic_convo.save_and_play, mic_llm_tts.play_audio, play_waifu.play_bytes.  *)
(* play_waifu.stream_multipart_to_player is mode "stream" above.            *)

\* the part of the parser state these entry points leave alone
parserVars == <<boundary, headers, remaining, segs, segIdx, partNo>>

\* play_waifu.stream_to_player, lines 72-85 and 100-104
EntryRaw ==
    /\ dpc = "entry" /\ mode = "raw"
    /\ IF ~ffplay /\ ~afplay
       THEN Raises("SystemExit: 2") /\ UNCHANGED <<stdinOpen, player>>
       ELSE IF status # 200
       THEN Raises("RuntimeError: HTTP") /\ UNCHANGED <<stdinOpen, player>>
       ELSE /\ stdinOpen' = ffplay
            /\ player' = Started
            /\ dpc' = "rawchunk"
            /\ UNCHANGED outcome
    /\ UNCHANGED <<inputVars, parserVars, pos, calls>>
    /\ printed' = IF ~ffplay /\ ~afplay THEN Append(printed, NoPlayerNotice)
                   ELSE printed
    /\ UNCHANGED <<tools, pi_mode, play, audio_bytes, saved, ran>>
    /\ UNCHANGED <<vadVars, wavVars, loopVars>>

\* play_waifu.stream_to_player, one iteration of the read loop (lines 87-92
\* with ffplay, 105-109 with afplay)
RawChunk ==
    /\ dpc = "rawchunk" /\ mode = "raw"
    /\ LET chunk == Read(wire, pos, ChunkBytes)
       IN /\ pos' = pos + Len(chunk)
          /\ IF chunk = <<>>
             THEN dpc' = "finish" /\ UNCHANGED <<calls, outcome, player>>
             ELSE \E broken \in PipeBreaks :
                    IF broken
                    THEN /\ Raises("BrokenPipeError")
                         /\ player' = Cleanup(player)
                         /\ UNCHANGED calls
                    ELSE /\ calls' = Append(calls, Call("player", chunk, <<>>))
                         /\ UNCHANGED <<dpc, outcome, player>>
    /\ UNCHANGED <<inputVars, parserVars, stdinOpen>>
    /\ UNCHANGED <<vadVars, sinkVars, wavVars, loopVars>>

\* the player process ends on its own while the bridge is feeding it
PlayerExits ==
    /\ mode \in {"stream", "raw"}
    /\ dpc \notin {"entry", "done"}
    /\ player = "running"
    /\ player' = "exited"
    /\ UNCHANGED <<inputVars, parserVars, pos, dpc, calls, stdinOpen, outcome>>
    /\ UNCHANGED <<vadVars, sinkVars, wavVars, loopVars>>

\* shutil.which('ffplay') or shutil.which('afplay'); <<>> stands for None
FfplayOrAfplay ==
    IF ffplay THEN <<"ffplay">> ELSE IF afplay THEN <<"afplay">> ELSE <<>>

\* shutil.which('afplay') or shutil.which('ffplay')
AfplayOrFfplay ==
    IF afplay THEN <<"afplay">> ELSE IF ffplay THEN <<"ffplay">> ELSE <<>>

\* what a one-shot entry point leaves alone
oneShotFrame == <<inputVars, parserVars, pos, calls, stdinOpen, player,
                  tools, pi_mode, play, audio_bytes>>

\* mic_convo.save_and_play(audio_bytes, ctype, play), lines 155-173
SaveAndPlay ==
    /\ dpc = "entry" /\ mode = "save_and_play"
    /\ saved' = Append(saved, audio_bytes)
    /\ IF ~play
       THEN printed' = Append(printed, SavedNotice) /\ UNCHANGED ran
       ELSE IF FfplayOrAfplay = <<>>
       THEN printed' = printed \o <<SavedNotice, NoPlayerNotice>> /\ UNCHANGED ran
       ELSE printed' = Append(printed, SavedNotice) /\ ran' = ran \o FfplayOrAfplay
    /\ dpc' = "done"
    /\ outcome' = "returned"
    /\ UNCHANGED oneShotFrame
    /\ UNCHANGED <<vadVars, wavVars, loopVars>>

\* mic_llm_tts.play_audio(buf, ctype, pi_mode, alsa_dev), lines 152-190
PlayAudio ==
    /\ dpc = "entry" /\ mode = "play_audio"
    /\ saved' = Append(saved, audio_bytes)
    /\ IF pi_mode /\ {"aplay", "ffmpeg"} \subseteq tools
       THEN printed' = Append(printed, SavedNotice) /\ ran' = ran \o <<"ffmpeg", "aplay">>
       ELSE IF pi_mode /\ "mpg123" \in tools
       THEN printed' = Append(printed, SavedNotice) /\ ran' = Append(ran, "mpg123")
       ELSE IF AfplayOrFfplay # <<>>
       THEN printed' = Append(printed, SavedNotice) /\ ran' = ran \o AfplayOrFfplay
       ELSE printed' = printed \o <<SavedNotice, NoPlayerNotice>> /\ UNCHANGED ran
    /\ dpc' = "done"
    /\ outcome' = "returned"
    /\ UNCHANGED oneShotFrame
    /\ UNCHANGED <<vadVars, wavVars, loopVars>>

\* play_waifu.play_bytes(audio_bytes, suffix), lines 39-61: the temporary
\* file is removed once it was played
PlayBytes ==
    /\ dpc = "entry" /\ mode = "play_bytes"
    /\ IF ~ffplay /\ ~afplay
       THEN /\ printed' = Append(printed, NoPlayerNotice)
            /\ Raises("SystemExit: 2")
            /\ UNCHANGED <<saved, ran>>
       ELSE /\ ran' = ran \o FfplayOrAfplay
            /\ dpc' = "done"
            /\ outcome' = "returned"
            /\ UNCHANGED <<saved, printed>>
    /\ UNCHANGED oneShotFrame
    /\ UNCHANGED <<vadVars, wavVars, loopVars>>

BridgeNext ==
    \/ EntryStream \/ Sync \/ HeaderLine \/ StreamLength \/ Chunk
    \/ NextBoundary \/ Finish
    \/ EntryRaw \/ RawChunk \/ PlayerExits
    \/ SaveAndPlay \/ PlayAudio \/ PlayBytes

\* no playback entry point has been called
SinkIdle ==
    /\ tools = {}
    /\ pi_mode = FALSE
    /\ play = FALSE
    /\ audio_bytes = <<>>
    /\ saved = <<>>
    /\ printed = <<>>
    /\ ran = <<>>

\* the players other than ffplay and afplay the entry points look for
OtherTools == {"mpg123", "aplay", "ffmpeg"}

\* the responses streamed in the bridge: two parts, well-formed or with a
\* Content-Length that is no number or a junk line after the first part
BridgeEnvelopes ==
    { <<[ctype |-> "application/json", body |-> JsonDoc],
        [ctype |-> "audio/wav", body |-> <<"a", "-", "-">>]>>,
      <<[ctype |-> "audio/wav", body |-> <<"a", "-", "-">>],
        [ctype |-> "audio/wav", body |-> <<"a">>]>> }
BridgeFaults == {"none", "badlength", "junkline"}

\* Each playback entry point with every combination of players found; the
\* streaming ones are fed a response, the one-shot ones are handed audio.
BridgeInit ==
    /\ mode \in {"stream", "raw", "save_and_play", "play_audio", "play_bytes"}
    /\ ffplay \in BOOLEAN /\ afplay \in BOOLEAN
    /\ respCtype = GoodCtype
    /\ xBoundary = <<>>
    /\ withLength = TRUE
    /\ parts \in BridgeEnvelopes
    /\ IF mode \in {"stream", "raw"}
       THEN /\ status \in {200, 204}
            /\ fault \in BridgeFaults
            /\ tools = {} /\ pi_mode = FALSE /\ play = FALSE
            /\ audio_bytes = <<>>
       ELSE /\ status = 200
            /\ fault = "none"
            /\ parts = <<[ctype |-> "application/json", body |-> JsonDoc],
                         [ctype |-> "audio/wav", body |-> <<"a", "-", "-">>]>>
            /\ tools \in SUBSET OtherTools
            /\ pi_mode \in BOOLEAN /\ play \in BOOLEAN
            /\ audio_bytes = parts[2].body
    /\ wire = FaultyEnvelope(parts, withLength, fault)
    /\ DemuxStart
    /\ saved = <<>>
    /\ printed = <<>>
    /\ ran = <<>>

\* no container is being written
WavIdle ==
    /\ samples = <<>>
    /\ samplerate = 0
    /\ wav = <<>>
    /\ decoded = <<>>
    /\ wpc = "idle"

-----------------------------------------------------------------------------
(* The WAV container: record_from_mic lines 100-109 (the same lines close    *)
(* record_vad, record_until_enter, record_once and _record_until_event)      *)
(* write it with the wave module; vosk_transcribe.transcribe reads it back.  *)
(* Bytes are the integers 0 .. 255.                                          *)

\* at most this many frames in an utterance, each of this many samples
MaxWavFrames == 2
WavFrameLen == 1

\* int16 sample values and sample rates tried
SampleValues == {-32768, -1, 255, 32767}
SampleRates == {8000, 16000, 48000, 70000}

\* struct.pack('<H', x), struct.pack('<L', x)
U16(x) == <<x % 256, (x \div 256) % 256>>
U32(x) == <<x % 256, (x \div 256) % 256, (x \div 65536) % 256,
            (x \div 16777216) % 256>>

\* a slip that would write the samples high byte first
I16BigEndian(x) == <<((x + 65536) % 65536) \div 256, ((x + 65536) % 65536) % 256>>

\* y.tobytes() of one int16 sample: two's complement, little-endian
I16(x) == U16((x + 65536) % 65536)

\* y.tobytes(): the samples one after the other
RECURSIVE ToBytes(_)
ToBytes(y) == IF y = <<>> THEN <<>> ELSE I16(Head(y)) \o ToBytes(Tail(y))

\* np.concatenate(collected)
RECURSIVE Concatenate(_)
Concatenate(frames) ==
    IF frames = <<>> THEN <<>> ELSE Head(frames) \o Concatenate(Tail(frames))

\* b'RIFF', b'WAVE', b'fmt ', b'data'
TagRIFF == <<82, 73, 70, 70>>
TagWAVE == <<87, 65, 86, 69>>
TagFmt == <<102, 109, 116, 32>>
TagData == <<100, 97, 116, 97>>

\* wave.open(buf, 'wb'); setnchannels(nch); setsampwidth(width);
\* setframerate(rate); writeframes(data): the RIFF header and the data
WaveWrite(nch, width, rate, data) ==
    TagRIFF \o U32(36 + Len(data)) \o TagWAVE
    \o TagFmt \o U32(16) \o U16(1) \o U16(nch) \o U32(rate)
    \o U32(nch * rate * width) \o U16(nch * width) \o U16(width * 8)
    \o TagData \o U32(Len(data)) \o data

\* lines 100-109: b"" for an empty utterance, else the container of the
\* concatenated frames, mono, 16 bit
EncodeWav(frames, rate) ==
    IF frames = <<>> THEN <<>>
    ELSE WaveWrite(1, 2, rate, ToBytes(Concatenate(frames)))

\* struct.unpack_from('<H', b, at - 1), struct.unpack_from('<L', b, at - 1)
FromU16(b, at) == b[at] + 256 * b[at + 1]
FromU32(b, at) == b[at] + 256 * b[at + 1] + 65536 * b[at + 2] + 16777216 * b[at + 3]

\* np.frombuffer(data, dtype=np.int16): pairs of bytes as signed samples
FromBuffer(data) ==
    [i \in 1 .. Len(data) \div 2 |->
        LET v == FromU16(data, 2 * i - 1)
        IN IF v >= 32768 THEN v - 65536 ELSE v]

\* wave.open(path, 'rb'): getnchannels(), getsampwidth(), getframerate() and
\* readframes() of the whole data chunk, as samples
ReadWav(b) ==
    [riff |-> SubSeq(b, 1, 4) = TagRIFF /\ SubSeq(b, 9, 12) = TagWAVE
              /\ SubSeq(b, 13, 16) = TagFmt /\ SubSeq(b, 37, 40) = TagData,
     nchannels |-> FromU16(b, 23),
     sampwidth |-> FromU16(b, 35) \div 8,
     framerate |-> FromU32(b, 25),
     samples |-> FromBuffer(SubSeq(b, 45, 44 + FromU32(b, 41)))]

\* the utterance is written
Encode ==
    /\ wpc = "encode"
    /\ wav' = EncodeWav(samples, samplerate)
    /\ wpc' = IF samples = <<>> THEN "done" ELSE "decode"
    /\ UNCHANGED <<samples, samplerate, decoded>>
    /\ UNCHANGED <<vadVars, demuxVars, sinkVars, loopVars>>

\* the container is read back
ReadBack ==
    /\ wpc = "decode"
    /\ decoded' = ReadWav(wav)
    /\ wpc' = "done"
    /\ UNCHANGED <<samples, samplerate, wav>>
    /\ UNCHANGED <<vadVars, demuxVars, sinkVars, loopVars>>

WavNext == Encode \/ ReadBack

\* the frames the capture may have collected: none, or up to MaxWavFrames
\* frames of int16 samples
WavFrames == [1 .. WavFrameLen -> SampleValues]

WavInit ==
    /\ samples \in UNION {[1 .. n -> WavFrames] : n \in 0 .. MaxWavFrames}
    /\ samplerate \in SampleRates
    /\ wav = <<>>
    /\ decoded = <<>>
    /\ wpc = "encode"

\* no demultiplexer is running
DemuxIdle ==
    /\ mode = "none"
    /\ ffplay = FALSE /\ afplay = FALSE
    /\ status = 200
    /\ respCtype = <<>>
    /\ xBoundary = <<>>
    /\ parts = <<>>
    /\ withLength = FALSE
    /\ fault = "none"
    /\ wire = <<>>
    /\ DemuxStart

\* no capture is running
VadIdle ==
    /\ now = 0
    /\ waitStart = 0
    /\ q = <<>>
    /\ produced = 0
    /\ lastCb = 0
    /\ started = FALSE
    /\ speech_start_ts = NoneTs
    /\ last_voice_ts = NoneTs
    /\ collected = <<>>
    /\ total_samples = 0
    /\ vpc = "idle"
    /\ exitPath = "none"
    /\ ret = EmptyBytes
    /\ loudest = 0
    /\ dipped = FALSE

\* a main() at its first prompt, no capture made yet
MainInit ==
    /\ client \in Clients
    /\ arg_mode \in Modes(client)
    /\ mpc = "prompt"
    /\ turns = 0
    /\ posted = <<>>

\* the default parameters of record_from_mic
DefaultParams ==
    /\ min_speech_ms = default_min_speech_ms
    /\ trailing_silence_ms = default_trailing_silence_ms

\* the parameters a caller may pass instead: the defaults, or a minimum
\* speech duration longer than the trailing silence
ParamInit ==
    /\ min_speech_ms \in
         {default_min_speech_ms, default_trailing_silence_ms + get_timeout}
    /\ trailing_silence_ms = default_trailing_silence_ms

\* stop_evt = threading.Event()
ManualIdle ==
    /\ stop_evt = FALSE
    /\ stop_ts = NoneTs
    /\ stop_len = 0

\* no main() is running
MainIdle ==
    /\ client = "none"
    /\ arg_mode = "none"
    /\ mpc = "none"
    /\ turns = 0
    /\ posted = <<>>

-----------------------------------------------------------------------------
(* Capture loop: properties *)

\* C3: silent input yields an empty result.  Once frames that are all below
\* start_threshold have filled max_samples, the capture has returned b"".
C3_SilentInputReturnsEmpty ==
    (loudest < start_threshold /\ total_samples >= max_samples)
        => (vpc = "done" /\ ret = EmptyBytes)

\* C4: hard cap independent of state.  The loop is never still running,
\* Idle or Recording, with total_samples at or past max_samples.
C4_HardCapAnyState ==
    vpc = "loop" => total_samples < max_samples

\* C5 (as claimed): an input that crossed start_threshold and never dropped
\* below stop_threshold afterwards ends only through the hard cap.
C5_OnlyCapEnds ==
    (vpc = "done" /\ ~dipped) => exitPath = "cap"

\* C5 (amended): such an input never ends through the per-frame silence
\* check; apart from the hard cap it ends only through the queue-timeout
\* check, taken on an empty queue after the device delivered nothing for
\* longer than the silence limit.
C5_NoSilenceExitWithoutDip ==
    (vpc = "done" /\ ~dipped) =>
        \/ exitPath = "cap"
        \/ /\ exitPath = "stall"
           /\ q = <<>>
           /\ now - last_voice_ts > silence_limit_samples

\* C5 witness: a capture of several frames, none below stop_threshold, that
\* ended at the hard cap.
C5_Witness ==
    /\ vpc = "done" /\ ~dipped /\ exitPath = "cap"
    /\ Len(collected) >= 3

\* The utterance opens with frames at or above start_threshold that span at
\* least min_speech_samples (sustained crossing).
SustainedSpeech ==
    \E j \in 1 .. Len(collected) :
        /\ \A k \in 1 .. j : collected[k].level >= start_threshold
        /\ collected[j].t - collected[1].t >= min_speech_samples

\* C6 (as claimed): after sustained speech and a trailing-silence exit the
\* utterance holds no frame captured after the window
\* last_voice_ts + silence_limit closed.
C6_FrozenAtBoundary ==
    (exitPath = "silence" /\ SustainedSpeech) =>
        \A i \in 1 .. Len(collected) :
            collected[i].t <= last_voice_ts + silence_limit_samples

\* C6 (amended): after sustained speech and a trailing-silence exit, every
\* frame of the utterance except the last one (the frame whose processing
\* observed the closed window, appended before the test) was captured
\* before the window closed.
C6_FrozenAfterClosingFrame ==
    (exitPath = "silence" /\ SustainedSpeech) =>
        \A i \in 1 .. Len(collected) - 1 :
            collected[i].t <= last_voice_ts + silence_limit_samples

\* C6 witness: a trailing-silence exit whose last frame was captured after
\* the window closed.
C6_Witness ==
    /\ exitPath = "silence"
    /\ SustainedSpeech
    /\ Len(collected) >= 4
    /\ collected[Len(collected)].t > last_voice_ts + silence_limit_samples

\* C7: a non-empty utterance holds at least min_speech_samples samples
\* admitted from the transition to Recording on, on every exit path.
C7_MinSpeechAdmitted ==
    (vpc = "done" /\ ret # EmptyBytes)
        => Len(ret.data) * blocksize >= min_speech_samples

-----------------------------------------------------------------------------
(* Specifications *)

\* one auto-stop capture
InitVad ==
    VadInit /\ DemuxIdle /\ SinkIdle /\ WavIdle
    /\ DefaultParams /\ ManualIdle /\ MainIdle

SpecVad == InitVad /\ [][VadNext]_vars

\* one response demultiplexed by each of the three parsers
InitDemux ==
    DemuxInit /\ VadIdle /\ SinkIdle /\ WavIdle
    /\ DefaultParams /\ ManualIdle /\ MainIdle

SpecDemux == InitDemux /\ [][DemuxNext]_vars

\* one response with arbitrary headers handed to each entry point
InitEntry ==
    EntryInit /\ VadIdle /\ SinkIdle /\ WavIdle
    /\ DefaultParams /\ ManualIdle /\ MainIdle

SpecEntry == InitEntry /\ [][DemuxNext]_vars

\* one malformed response demultiplexed by each of the three parsers
InitFault ==
    FaultInit /\ VadIdle /\ SinkIdle /\ WavIdle
    /\ DefaultParams /\ ManualIdle /\ MainIdle

SpecFault == InitFault /\ [][DemuxNext]_vars

\* one call of a playback entry point
InitBridge ==
    BridgeInit /\ VadIdle /\ WavIdle
    /\ DefaultParams /\ ManualIdle /\ MainIdle

SpecBridge == InitBridge /\ [][BridgeNext]_vars

\* one utterance written to its container and read back
InitWav ==
    WavInit /\ VadIdle /\ DemuxIdle /\ SinkIdle
    /\ DefaultParams /\ ManualIdle /\ MainIdle

SpecWav == InitWav /\ [][WavNext]_vars

\* one auto-stop capture under each setting of its parameters
InitVadParams ==
    VadInit /\ ParamInit /\ ManualIdle /\ MainIdle
    /\ DemuxIdle /\ SinkIdle /\ WavIdle

SpecVadParams == InitVadParams /\ [][VadNext]_vars

\* one manual-stop capture
InitManual ==
    ManualInit /\ DefaultParams /\ ManualIdle /\ MainIdle
    /\ DemuxIdle /\ SinkIdle /\ WavIdle

SpecManual == InitManual /\ [][ManualNext]_vars

\* the same, with every thread that can run eventually running and time
\* passing
SpecManualFair ==
    /\ SpecManual
    /\ WF_vars(Tick) /\ WF_vars(WhileTest) /\ WF_vars(Get) /\ WF_vars(GetEmpty)

\* a run of a client's main(): prompt, capture, request, and again
InitMain ==
    MainInit /\ VadIdle /\ DefaultParams /\ ManualIdle
    /\ DemuxIdle /\ SinkIdle /\ WavIdle

SpecMain == InitMain /\ [][MainNext]_vars

-----------------------------------------------------------------------------
(* Demultiplexers: properties *)

RECURSIVE Concat(_)
Concat(ss) == IF ss = <<>> THEN <<>> ELSE Head(ss) \o Concat(Tail(ss))

\* the bodies handed to a sink, in call order
BodiesTo(sink) ==
    LET cs == SelectSeq(calls, LAMBDA c : c.sink = sink)
    IN [i \in 1 .. Len(cs) |-> cs[i].body]

\* the wire holds the whole envelope
Complete == wire = EnvelopeBytes(parts, withLength)

\* the bytes of the last body that reached the wire
Available ==
    IF Complete THEN Len(parts[Len(parts)].body)
    ELSE Len(wire) - (Len(EnvelopeBytes(parts, withLength)) - Len(TailBytes)
                      - Len(parts[Len(parts)].body))

\* C1: multipart round-trip.  A complete envelope of one JSON document and
\* one audio/wav part of N >= 1 bytes, demultiplexed by the length-framed or
\* the whole-buffer parser, hands the JSON sink the document and the audio
\* sink the N bytes.
C1_RoundTrip ==
    ( /\ dpc = "done" /\ mode \in {"framed", "buffer"}
      /\ Complete /\ (mode = "framed" => withLength)
      /\ Len(parts) = 2
      /\ parts[1] = [ctype |-> "application/json", body |-> JsonDoc]
      /\ parts[2].ctype = "audio/wav" )
    => /\ outcome = "returned"
       /\ BodiesTo("json") = <<JsonDoc>>
       /\ BodiesTo("audio") = <<parts[2].body>>

\* C2: partial success on truncation.  A JSON part followed by a binary part
\* whose declared length exceeds the bytes available (0 < available <
\* declared): the parser returns, the JSON part is delivered and no byte of
\* the second part reaches a sink.
C2_PartialSuccess ==
    ( /\ dpc = "done" /\ mode \in {"framed", "stream"}
      /\ withLength /\ ~Complete /\ Available > 0
      /\ Len(parts) = 2
      /\ parts[1].ctype = "application/json"
      /\ Route(<<parts[2].ctype>>) = "audio" )
    => /\ outcome = "returned"
       /\ \A i \in 1 .. Len(calls) : calls[i].part = 1
       /\ Concat([i \in 1 .. Len(calls) |-> calls[i].body]) = parts[1].body
       /\ mode = "framed" => BodiesTo("json") = <<parts[1].body>>

\* the response names no boundary: no boundary= parameter in Content-Type
\* and no X-Boundary header
NoBoundaryAnnounced ==
    /\ \A i \in 1 .. Len(respCtype) : LowerSym(respCtype[i]) # "boundary="
    /\ xBoundary = <<>>

\* the entry point got as far as looking at the response headers
\* (stream_multipart_to_player first looks for a player and at the status)
ResponseInspected ==
    mode = "stream" => ((ffplay \/ afplay) /\ status = 200)

\* C8: boundary-absent fail-fast.  When the response names no boundary, the
\* entry point ends by raising, with no byte of the body read and no sink
\* invoked; the exception is the missing-boundary framing error.
C8_FailFast ==
    (NoBoundaryAnnounced /\ dpc # "entry")
    => /\ dpc = "done"
       /\ pos = 0
       /\ calls = <<>>
       /\ outcome \notin {"none", "returned"}
       /\ ResponseInspected => outcome = MissingBoundary

\* C8 witness: an application/json response rejected by the length-framed
\* entry point
C8_Witness ==
    /\ respCtype = <<"application/json">> /\ xBoundary = <<>>
    /\ mode = "framed"
    /\ dpc = "done" /\ outcome = MissingBoundary /\ pos = 0

\* C9: part routing is the same in every demultiplexer.  For a complete,
\* length-framed envelope: a JSON part reaches the JSON sink and no other,
\* a binary part reaches the binary sink with its declared content type, a
\* part of any other type reaches no sink.  (The player bridge has no JSON
\* sink: there a JSON part must reach no sink.)
C9_Routing ==
    (dpc = "done" /\ Complete /\ withLength)
    => \A k \in 1 .. Len(parts) :
         LET r == Route(<<parts[k].ctype>>)
             cs == {i \in 1 .. Len(calls) : calls[i].part = k}
         IN /\ r = "none" => cs = {}
            /\ r = "json" => /\ \A i \in cs : calls[i].sink = "json"
                             /\ mode # "stream" => cs # {}
            /\ r = "audio" => /\ cs # {}
                              /\ \A i \in cs :
                                   /\ calls[i].sink \in {"audio", "player"}
                                   /\ calls[i].ctype = <<parts[k].ctype>>

\* C10: in length-framed streaming mode content-length is mandatory and
\* authoritative.  Every sink call belongs to a part that carried a
\* content-length header, and the bytes handed over for a part are exactly
\* as many as it declared.
C10_LengthAuthoritative ==
    mode \in {"framed", "stream"}
    => \A i \in 1 .. Len(calls) :
         /\ calls[i].hasLength
         /\ mode = "framed" => Len(calls[i].body) = IntOf(calls[i].declared)
         /\ (mode = "stream" /\ dpc = "done") =>
               LET mine == SelectSeq(calls, LAMBDA c : c.part = calls[i].part)
               IN Len(Concat([j \in 1 .. Len(mine) |-> mine[j].body]))
                     = IntOf(calls[i].declared)

\* the sink calls made for part k, in call order
CallsOf(k) == SelectSeq(calls, LAMBDA c : c.part = k)

\* the bodies of a sequence of sink calls
BodiesOf(cs) == [i \in 1 .. Len(cs) |-> cs[i].body]

\* what the routing of a decoded part p hands to the sinks: nothing, or one
\* <<sink, body, content type>>
Delivery(p) ==
    IF Route(<<p.ctype>>) = "none" THEN <<>>
    ELSE <<<<Route(<<p.ctype>>), p.body, <<p.ctype>>>>>>

\* the sink calls of cs as <<sink, body, content type>>
Delivered(cs) == [i \in 1 .. Len(cs) |-> <<cs[i].sink, cs[i].body, cs[i].ctype>>]

\* the framing breaks after the first part, which is intact
StopsAfterFirst == fault \in {"junkline", "eofheaders"}

\* the offset at which a length-framed parser has to stop under such a fault:
\* the end of the line that is no boundary, or the end of the stream
StopOffset ==
    IF fault = "junkline"
    THEN Len(wire) - Len(EnvelopeBytes(<<parts[2]>>, withLength))
    ELSE Len(wire)

\* C11: partial success in the length-framed parsers.  When the line after
\* the first body is no boundary line, or the stream ends inside the second
\* part's headers, the parser stops reading there and returns normally; the
\* first part has reached its sink exactly once and no later part reaches a
\* sink.
C11_PartialSuccess ==
    (StopsAfterFirst /\ withLength /\ mode \in {"framed", "stream"} /\ dpc = "done")
    => /\ outcome = "returned"
       /\ pos = StopOffset
       /\ \A i \in 1 .. Len(calls) : calls[i].part = 1
       /\ mode = "framed" => Delivered(calls) = Delivery(parts[1])
       /\ mode = "stream" => Concat(BodiesOf(calls)) = parts[1].body

\* C11 witness: a junk line after a delivered first part, with a second part
\* on the wire that would have been routed
C11_Witness ==
    /\ fault = "junkline" /\ withLength /\ mode = "framed" /\ dpc = "done"
    /\ Len(calls) = 1 /\ calls[1].part = 1
    /\ Route(<<parts[2].ctype>>) # "none"
    /\ pos < Len(wire)

\* C12: malformed-part errors never escape the demultiplexer.  Whatever the
\* damage to the first part, with the boundary well announced, the
\* demultiplexer ends by returning, never by raising.
C12_NoEscape ==
    dpc = "done" => outcome = "returned"

\* the first part cannot be framed: its header block is no name:value line,
\* or no boundary line opens it
FirstPartUnframed == fault \in {"nocolon", "noboundary"}

\* C13: a framing error at the very first part is fatal.  The whole-buffer
\* and length-framed parsers end by raising, and no sink has been invoked.
C13_FirstPartFatal ==
    (FirstPartUnframed /\ mode \in {"buffer", "framed"} /\ dpc = "done")
    => /\ outcome \notin {"none", "returned"}
       /\ calls = <<>>

\* where the routing sends a decoded part: nothing, or one
\* <<sink, content type>>
Routing(p) ==
    IF Route(<<p.ctype>>) = "none" THEN <<>>
    ELSE <<<<Route(<<p.ctype>>), <<p.ctype>>>>>>

\* the sink calls of cs as <<sink, content type>>
Routed(cs) == [i \in 1 .. Len(cs) |-> <<cs[i].sink, cs[i].ctype>>]

\* the whole-buffer parser was given a first segment with no blank line
\* between headers and body
FirstSegmentUnseparated ==
    mode = "buffer" /\ fault = "nosep" /\ parts[1].body # <<>>

C15_BareLF ==
    ( /\ fault = "barelf" /\ mode \in {"buffer", "framed"} /\ withLength
      /\ parts[1].body # <<>> /\ parts[2].body # <<>>
      /\ dpc = "done" )
    => /\ outcome = "returned"
       /\ Routed(calls) = Routing(parts[1]) \o Routing(parts[2])

-----------------------------------------------------------------------------
(* The envelope the callers assemble from the sink calls (mic_convo.py       *)
(* convo_once, call_transcribe.py main, prod_mic_convo.py main).             *)

\* json.loads(b.decode(...)) succeeds
IsJsonText(b) == b = JsonDoc

\* result = {"transcript": None, ...}; audio_bin = {"buf": None,
\* "ctype": "application/octet-stream"}   (has* is FALSE while the slot is None)
EmptyEnvelope ==
    [hasTranscript |-> FALSE, transcript |-> <<>>,
     hasBuf |-> FALSE, buf |-> <<>>, ctype |-> <<"application/octet-stream">>]

\* on_json: the parsed document is stored; a parse error is swallowed
on_json(env, b) ==
    IF IsJsonText(b)
    THEN [env EXCEPT !.hasTranscript = TRUE, !.transcript = b]
    ELSE env

\* on_audio: audio_bin["buf"] = b; audio_bin["ctype"] = ct
on_audio(env, b, ct) ==
    [env EXCEPT !.hasBuf = TRUE, !.buf = b, !.ctype = ct]

\* the envelope after the sink calls cs, made in order on env
RECURSIVE Deliver(_, _)
Deliver(cs, env) ==
    IF cs = <<>> THEN env
    ELSE Deliver(Tail(cs),
                 IF Head(cs).sink = "json" THEN on_json(env, Head(cs).body)
                 ELSE IF Head(cs).sink = "audio"
                 THEN on_audio(env, Head(cs).body, Head(cs).ctype)
                 ELSE env)

\* the envelope the caller holds
Envelope == Deliver(calls, EmptyEnvelope)

\* the audio sink calls, and the JSON sink calls whose document parses
AudioCalls == SelectSeq(calls, LAMBDA c : c.sink = "audio")
JsonCalls == SelectSeq(calls, LAMBDA c : c.sink = "json" /\ IsJsonText(c.body))

\* C16: the envelope holds at most one part of each kind and extra parts of a
\* kind are ignored: after a complete response was parsed by the whole-buffer
\* or the length-framed parser the envelope's audio is the first audio part handed over and its
\* metadata the first JSON document handed over.
C16_ExtrasIgnored ==
    ( /\ mode \in {"buffer", "framed"} /\ Complete
      /\ dpc = "done" /\ outcome = "returned" )
    => /\ AudioCalls # <<>>
          => /\ Envelope.hasBuf
             /\ Envelope.buf = AudioCalls[1].body
             /\ Envelope.ctype = AudioCalls[1].ctype
       /\ JsonCalls # <<>>
          => /\ Envelope.hasTranscript
             /\ Envelope.transcript = JsonCalls[1].body

\* the length the part being read declares: content-length, 0 when absent
DeclaredLength == IntOf(HeaderGet(headers, "content-length", <<"0">>))

\* one step of a length-framed parser that reads body bytes: the bytes taken
\* from the transport stay within what the part declares and has not yet
\* had, and a chunk read by the streaming parser is one read of at most
\* ChunkBytes bytes that is written to the sink before the step ends
C17_ReadStep ==
    /\ (dpc = "body" /\ mode = "framed" /\ dpc' = "next")
       => pos' - pos <= (IF DeclaredLength > 0 THEN DeclaredLength ELSE 0)
    /\ dpc = "chunk"
       => /\ pos' - pos <= (IF remaining > 0 THEN remaining ELSE 0)
          /\ pos' - pos <= ChunkBytes
          /\ pos' > pos
             => /\ Len(calls') = Len(calls) + 1
                /\ calls'[Len(calls')].body = SubSeq(wire, pos + 1, pos')

\* C17: backpressure discipline.  The length-framed parsers never read body
\* bytes of a part beyond its declared length, and the streaming parser
\* holds no chunk across a read: each chunk read is written to the sink
\* before the next read.
C17_Backpressure == [][C17_ReadStep]_vars

-----------------------------------------------------------------------------
(* Playback entry points: properties *)

\* a streaming entry point is over and it had started a player process
BridgeLeftWithPlayer ==
    mode \in {"stream", "raw"} /\ dpc = "done" /\ player # "none"

\* C18 as stated: on every path out of the player bridge the player's input
\* pipe has been closed, and no player is left running with its input open.
C18_PipeClosedOnEveryPath ==
    BridgeLeftWithPlayer => (~stdinOpen /\ player # "running")

\* C18, amended: on every path out of the player bridge no player process is
\* left running; the input pipe has been closed on every path on which the
\* response was read to its end or the parser stopped, and on a path left by
\* an exception raised while parsing or writing the player was killed if it
\* was still running, its pipe left unclosed.
C18_NoPlayerLeftRunning ==
    BridgeLeftWithPlayer
    => /\ player # "running"
       /\ outcome = "returned" => (~stdinOpen /\ player = "exited")

\* C18 witness: the multipart bridge left by a ValueError after the player
\* was started and fed the first chunk
C18_Witness ==
    /\ mode = "stream" /\ dpc = "done" /\ outcome = "ValueError"
    /\ player = "killed" /\ stdinOpen

\* no external player can be found
NoPlayer == ~ffplay /\ ~afplay /\ tools = {}

\* C19: sink unavailable is never a hard failure.  With no player found,
\* every playback entry point (save_and_play, play_audio, play_bytes,
\* stream_to_player, stream_multipart_to_player) returns normally, having
\* saved the audio and printed where.
C19_SaveOnly ==
    (NoPlayer /\ dpc = "done")
    => /\ outcome = "returned"
       /\ saved # <<>>
       /\ \E i \in 1 .. Len(printed) : printed[i] = SavedNotice

-----------------------------------------------------------------------------
(* WAV container: properties *)

-----------------------------------------------------------------------------
(* Boundary discovery: properties *)

\* the value of the boundary= parameter of Content-Type: the parameter name
\* found in any letter case, a quote before the value dropped, the value
\* ending at the next quote or ";"; <<>> when there is no such value
ParameterBoundary ==
    LET at == {i \in 1 .. Len(respCtype) : LowerSym(respCtype[i]) = "boundary="}
        rest == From(respCtype, MinOf(at) + 1)
        bare == IF rest # <<>> /\ Head(rest) = "Q" THEN Tail(rest) ELSE rest
        stops == {j \in 1 .. Len(bare) : bare[j] \in {"Q", ";"}}
    IN IF at = {} THEN <<>>
       ELSE Strip(SubSeq(bare, 1,
                         IF stops = {} THEN Len(bare) ELSE MinOf(stops) - 1))

\* the boundary the response announces: the Content-Type parameter, and the
\* X-Boundary header only when that parameter is absent
AnnouncedBoundary ==
    IF ParameterBoundary # <<>> THEN ParameterBoundary ELSE Strip(xBoundary)

\* C22: boundary discovery is the same at every entry point.  Once an entry
\* point has looked at the headers of a response that announces a boundary,
\* the boundary it works with is the Content-Type parameter (any letter
\* case, quotes and following parameters removed), or else the X-Boundary
\* header.
C22_SameDiscovery ==
    (dpc # "entry" /\ ResponseInspected /\ AnnouncedBoundary # <<>>)
        => boundary = AnnouncedBoundary

-----------------------------------------------------------------------------
(* Capture loop: the utterance and the gate *)

\* the frames q.get has returned so far are those numbered 1 .. Dequeued
Dequeued == produced - Len(q)

\* the utterance is the run of dequeued frames that starts at its first frame
\* and ends at the last frame dequeued, each once and in arrival order; its
\* first frame is at or above start_threshold
UtteranceIsRun ==
    /\ (collected = <<>>) <=> ~started
    /\ \A i \in 1 .. Len(collected) : collected[i].id = collected[1].id + i - 1
    /\ collected # <<>> =>
         /\ collected[1].level >= start_threshold
         /\ collected[Len(collected)].id = Dequeued

\* a frame that is dequeued and left out of the utterance is below
\* start_threshold and is dequeued while no recording has started
DiscardedBelowStart ==
    (Len(q') < Len(q) /\ collected' = collected)
        => (Head(q).level < start_threshold /\ collected = <<>>)

\* C23: the utterance is a contiguous, order-preserving run of the input
\* frames.  It starts at the first dequeued frame at or above
\* start_threshold (every frame dequeued and left out came before it and was
\* below start_threshold), holds every frame dequeued from that one on
\* exactly once, and keeps arrival order.
C23_ContiguousRun == [](UtteranceIsRun) /\ [][DiscardedBelowStart]_vars

\* C23 witness: a finished capture of three or more frames that left out the
\* first frame delivered
C23_Witness ==
    /\ vpc = "done"
    /\ Len(collected) >= 3
    /\ collected[1].id >= 2
    /\ collected[Len(collected)].level < start_threshold

\* what one dequeued frame does to the gate
HysteresisStep ==
    Len(q') < Len(q) =>
        LET x == Head(q)
            between == x.level >= stop_threshold /\ x.level < start_threshold
        IN /\ (between /\ ~started) =>
                 (~started' /\ collected' = <<>> /\ last_voice_ts' = last_voice_ts)
           /\ (between /\ started) => last_voice_ts' = now
           /\ x.level < stop_threshold => last_voice_ts' = last_voice_ts

\* C24: hysteresis.  A frame whose level is in [stop_threshold,
\* start_threshold) never starts a recording while the gate is idle, and
\* refreshes last_voice_ts while it is recording; a frame below
\* stop_threshold never changes last_voice_ts.
C24_Hysteresis == [][HysteresisStep]_vars

\* C24 witness: a recording whose last frame, between the two thresholds,
\* moved last_voice_ts past the start of speech
C24_Witness ==
    /\ started
    /\ Len(collected) >= 2
    /\ collected[Len(collected)].level >= stop_threshold
    /\ collected[Len(collected)].level < start_threshold
    /\ last_voice_ts > speech_start_ts
    /\ last_voice_ts >= collected[Len(collected)].t
    /\ dipped

\* C29: the frame queue between the device callback and the capture loop is
\* bounded.  q = queue.Queue() has no maxsize and cb's q.put neither blocks
\* nor drops, so the only limit on the frames queued is the number the
\* device delivers before the loop runs; MaxQueue is the limit this
\* exploration puts on that number.  With a capacity the queue would stay
\* below it in every interleaving.
C29_QueueBounded == Len(q) < MaxQueue

-----------------------------------------------------------------------------
(* Manual-stop capture: properties *)

\* C21: manual-stop cancellation.  Once wait_enter has set stop_evt, at most
\* one further frame is admitted to the utterance, and the loop is left
\* within one q.get timeout of the instant the flag was set.
C21_Cancellation ==
    stop_evt =>
        /\ Len(collected) <= stop_len + 1
        /\ vpc # "done" => now - stop_ts <= poll_timeout

\* C21 witness: the flag was set while q.get was waiting, one more frame
\* arrived and was admitted, and the loop then saw the flag
C21_Witness ==
    /\ stop_evt
    /\ vpc = "done" /\ exitPath = "stop"
    /\ stop_len >= 1
    /\ Len(collected) = stop_len + 1
    /\ now > stop_ts

\* the loop is running no later than one q.get timeout after max_seconds
RunsWithinLimit ==
    vpc \in {"test", "get"} => now - start < max_samples + poll_timeout

\* what a finished capture returns: the frames collected so far as WAV, or
\* b'' if there are none; an exit through the time limit happens at or
\* after max_seconds
ReturnsCollected ==
    vpc = "done" =>
        /\ ret = Returned(collected)
        /\ exitPath = "cap" => now - start >= max_samples

\* C30: manual-stop capture always terminates.  Whether or not stop_evt is
\* ever set and whether or not frames arrive, the loop is left: it is never
\* running later than one q.get timeout after max_seconds have elapsed since
\* the capture started, and it returns the frames collected so far (b'' if
\* none).
C30_Terminates ==
    /\ <>(vpc = "done")
    /\ [](RunsWithinLimit)
    /\ [](ReturnsCollected)

\* C30 witness: the flag was never set, frames arrived, and the loop ended
\* at the time limit with the frames collected
C30_Witness ==
    /\ ~stop_evt
    /\ vpc = "done" /\ exitPath = "cap"
    /\ now - start >= max_samples
    /\ Len(collected) >= 2
    /\ ret = WavBytes(collected)

\* C30 second case: no frame arrived at all and the capture returned b''
C30_WitnessEmpty ==
    /\ ~stop_evt
    /\ vpc = "done" /\ exitPath = "cap"
    /\ produced = 0
    /\ ret = EmptyBytes

-----------------------------------------------------------------------------
(* Capture loop: termination through silence *)

\* C25: trailing-silence termination requires both conditions.  A capture
\* that ended through silence, counted from frames (line 94) or from the
\* wall clock when q.get timed out (line 71), ended with the speech
\* duration at or above min_speech_samples and the time since the last
\* voiced frame at or above silence_limit_samples, whatever min_speech_ms
\* and trailing_silence_ms are.
C25_BothConditions ==
    (vpc = "done" /\ exitPath \in {"silence", "stall"}) =>
        /\ now - speech_start_ts >= min_speech_samples
        /\ now - last_voice_ts >= silence_limit_samples

\* a step in which q.get timed out: the queue is empty and stays empty, the
\* clock does not move, and the loop does something
TimeoutStep ==
    /\ vpc = "loop"
    /\ q = <<>> /\ q' = <<>>
    /\ now' = now

\* C26: stall equals silence.  When q.get times out while recording, the
\* capture ends exactly when the per-frame test on the same clock reading
\* would end it (speech duration >= min_speech_samples and time since the
\* last voiced frame >= silence_limit_samples); when it times out while
\* idle the capture goes on and returns nothing.
C26_StallEqualsSilence ==
    [][TimeoutStep =>
          /\ started =>
               ((vpc' = "done")
                   <=> SilenceReached(now, speech_start_ts, last_voice_ts))
          /\ ~started => (vpc' = "loop" /\ exitPath' = "none")]_vars

-----------------------------------------------------------------------------
(* Client main loops: properties *)

\* a step in which main() calls the capture function
NewCall == mpc = "prompt" /\ mpc' = "capture"

\* what one step may do to the gate
GateStep ==
    /\ (started /\ ~started') => NewCall
    /\ (vpc = "done" /\ vpc' = "done") =>
           (collected' = collected /\ q' = q /\ ret' = ret /\ started' = started)
    /\ (vpc = "done" /\ vpc' # "done") => NewCall
    /\ NewCall =>
           /\ ~started'
           /\ collected' = <<>>
           /\ q' = <<>>
           /\ speech_start_ts' = NoneTs /\ last_voice_ts' = NoneTs
           /\ total_samples' = 0

\* C27: the gate only moves Idle -> Recording -> Terminal.  Within a call a
\* started gate never goes back to idle; after the call has ended no frame
\* is dequeued or appended; the next call starts idle, with an empty
\* utterance and an empty queue, whatever the previous call left behind.
C27_GateOneWay == [][GateStep]_vars

\* C27 witness: a second auto-stop capture, begun idle, that recorded and
\* ended
C27_Witness ==
    /\ turns = 2
    /\ arg_mode = "auto"
    /\ vpc = "done" /\ started
    /\ Len(collected) >= 2
    /\ Len(printed) + Len(posted) >= 1

\* what is posted is what a finished capture returned, and it is not empty
PostedIsUtterance ==
    posted # <<>> =>
        /\ vpc = "done"
        /\ posted = <<ret>>
        /\ ret # EmptyBytes
        /\ Len(ret.data) >= 1

\* when main() goes on after a capture: an empty result is reported and the
\* loop returns to the prompt (or ends) without a request
EmptyIsReported ==
    (mpc = "capture" /\ mpc' # "capture" /\ ret = EmptyBytes) =>
        /\ posted' = <<>>
        /\ printed' = Append(printed, NoSpeechNotice)
        /\ mpc' \in {"prompt", "exit"}

\* C28: an empty utterance is never submitted.  In every client main loop
\* audio is posted only after a capture returned a non-empty WAV payload;
\* after an empty capture the loop prints the no-speech notice and goes back
\* to the prompt, or exits, without a request.
C28_NeverSubmitsEmpty == [](PostedIsUtterance) /\ [][EmptyIsReported]_vars

\* C28 witness: a manual-stop capture stopped before any frame arrived,
\* reported and not posted, followed by a second turn
C28_Witness ==
    /\ turns = 2
    /\ printed = <<NoSpeechNotice>>
    /\ mpc = "prompt"
    /\ posted # <<>>

-----------------------------------------------------------------------------
(* Capture loop: exits, size and timestamps *)

C33_SizeBound ==
    /\ Len(collected) * blocksize < max_samples + blocksize
    /\ vpc = "done" => Len(ret.data) * blocksize < max_samples + blocksize

\* C33 witness: an utterance that reached max_samples and ended at the cap
C33_Witness ==
    /\ vpc = "done" /\ exitPath = "cap"
    /\ Len(ret.data) * blocksize >= max_samples

\* C34: timestamp invariant.  While started, speech_start_ts and
\* last_voice_ts are set and speech_start_ts <= last_voice_ts <= now, so the
\* time since the last voiced frame is at most the speech duration; while
\* not started both are unset.
C34_Timestamps ==
    /\ started =>
         /\ speech_start_ts # NoneTs /\ last_voice_ts # NoneTs
         /\ speech_start_ts <= last_voice_ts
         /\ last_voice_ts <= now
         /\ now - last_voice_ts <= now - speech_start_ts
    /\ ~started => (speech_start_ts = NoneTs /\ last_voice_ts = NoneTs)

\* C34 witness: a recording whose last voiced frame came after its start and
\* before now
C34_Witness ==
    /\ started
    /\ speech_start_ts < last_voice_ts
    /\ last_voice_ts < now
    /\ dipped

-----------------------------------------------------------------------------
(* Demultiplexers: the terminal boundary, the sink bytes, termination *)

\* the envelope ends after its first part and the wire goes on: with a
\* further boundary-delimited part, or with the bytes of a part as epilogue
AfterTerminal == fault \in {"aftermarker", "epilogue"}

\* C31: nothing after the terminal boundary is treated as a part.  When the
\* terminal marker follows the first part, the sinks receive at most the
\* first part, whatever follows the marker on the wire.
C31_NothingAfterTerminal ==
    (AfterTerminal /\ dpc = "done" /\ (mode = "buffer" \/ withLength)) =>
        /\ Len(calls) <= 1
        /\ mode \in {"buffer", "framed"} =>
               Delivered(calls) \in {<<>>, Delivery(parts[1])}
        /\ mode = "stream" => Concat(BodiesOf(calls)) = parts[1].body

\* the bodies of the parts, in wire order
PartBodies == [i \in 1 .. Len(parts) |-> parts[i].body]

\* s is a prefix of t
IsPrefix(s, t) == Len(s) <= Len(t) /\ SubSeq(t, 1, Len(s)) = s

\* C36: sink bytes are body bytes.  For a complete envelope whose parts all
\* declare their length, the streaming parser writes to the player sink, at
\* every moment, a prefix of the concatenation of the part bodies in wire
\* order, nothing reaches another sink, and when it has returned the sink
\* holds exactly that concatenation.
C36_SinkIsBodies ==
    (mode = "stream" /\ withLength /\ Complete) =>
        /\ \A i \in 1 .. Len(calls) : calls[i].sink = "player"
        /\ IsPrefix(Concat(BodiesOf(calls)), Concat(PartBodies))
        /\ dpc = "done" =>
               /\ outcome = "returned"
               /\ Concat(BodiesOf(calls)) = Concat(PartBodies)

\* C36 witness: two parts written in three chunks, the parser returned.
C36_Witness ==
    /\ mode = "stream" /\ withLength /\ Complete /\ dpc = "done"
    /\ Len(parts) = 2 /\ Len(calls) >= 3
    /\ parts[1].body # parts[2].body
    /\ Concat(BodiesOf(calls)) = parts[1].body \o parts[2].body

\* the two parsers that read the transport line by line and chunk by chunk
ReadsTransport == mode \in {"framed", "stream"}

\* C37: the demultiplexer reading the transport terminates on every finite
\* byte stream, by returning: whatever the damage to the body, its
\* activation never ends otherwise than by a normal return.
C37_EventuallyReturns ==
    (ReadsTransport /\ dpc = "done") => outcome = "returned"

\* how far a parser statement is from the end of its loop iteration
Stage(pc) ==
    CASE pc = "entry" -> 7
      [] pc = "sync" -> 6
      [] pc = "headers" -> 5
      [] pc = "body" -> 4
      [] pc = "chunk" -> 3
      [] pc = "next" -> 2
      [] pc = "finish" -> 1
      [] OTHER -> 0

\* the bytes left in the transport, then the statements left in the iteration
Rank(p, pc) == 8 * (Len(wire) - p) + Stage(pc)

\* On every such stream the activation does end, by a return or by an
\* exception leaving it: no step reads past the end of the transport, and
\* every step consumes at least one byte or moves on inside its iteration,
\* so that the rank, a natural number, decreases at every step.
C37_ActivationEnds ==
    /\ [](ReadsTransport => pos <= Len(wire))
    /\ [][ReadsTransport => Rank(pos', dpc') < Rank(pos, dpc)]_vars

-----------------------------------------------------------------------------
(* Manual-stop capture: the key-wait thread *)

\* wait_enter has run to its end: stop_evt.set() is its last statement and
\* nothing else sets the flag, so the thread started for a capture has
\* finished exactly when that capture's flag is set; until then it is
\* blocked in input()
KeyWaitFinished == stop_evt

\* C35: no stale key-wait thread.  When a manual-stop capture has returned,
\* through the flag or through the time limit, and from then on at the main
\* loop's next prompt, the key-wait thread started for it has finished.
C35_NoStaleWaiter ==
    (arg_mode = "manual" /\ vpc = "done") => KeyWaitFinished

=============================================================================
